---- MODULE Spec2Model ----
(***************************************************************************)
(* Ingestion-and-classification pipeline of the State Aggregator for       *)
(* Municipal Officials.                                                    *)
(*                                                                         *)
(*   SpecItemId   generateItemId as a pure function (server.js)            *)
(*   SpecHistory  parseBillPage + processBillHistory against the in-memory *)
(*                storage.seenItems map (server.js, per-action mode)       *)
(*   SpecScraper  runScraper over the persisted tables (scraper,           *)
(*                whole-bill mode); SpecRerun, SpecScraperPair,            *)
(*                SpecScraperBatch and SpecScraperFair are other scopes    *)
(*   SpecCollect  POST /api/collect of server.js, per-action mode, and     *)
(*                SpecCollectWhole, its whole-bill version                 *)
(*   SpecParse    the two parseBillPage functions as pure functions        *)
(*                                                                         *)
(* Text is a sequence of fragments: a fragment is a word in one spelling,  *)
(* a blank or a colon.  toLowerCase, trim and includes work on fragments   *)
(* as the JavaScript methods work on characters.  SHA-256 is modelled as   *)
(* collision free: a digest is a record that wraps the digested text.      *)
(***************************************************************************)
EXTENDS Integers, Sequences, FiniteSets, TLC

VARIABLES
  fn,          \* SpecItemId: the inputs and results of one generateItemId comparison
  seenItems,   \* storage.seenItems: item_id -> [sha256, last_seen]
  now,         \* the wall clock read by new Date()
  billData,    \* the snapshot of the latest parseBillPage, or NoData
  newItems,    \* the value returned by the latest processBillHistory
  prevSeen,    \* storage.seenItems as the latest processBillHistory found it
  scope,       \* scraper: how many House and Senate numbers a run covers, how many runs
  phase,       \* scraper: where runScraper stands
  runNo,       \* scraper: runs launched so far, the id of the current scraper_runs row
  batchAt,     \* scraper: the loop index i of runScraper
  task,        \* scraper: per bill number, the position and locals of its batch callback
  stats,       \* scraper: the stats object of the current run
  bills,       \* table bills: bill_number -> row
  bill_history,\* table bill_history: set of rows
  briefs,      \* table briefs: set of rows
  scraper_runs,\* table scraper_runs: id -> row
  uuidSeq,     \* crypto.randomUUID calls so far
  prevParsed,  \* scraper: per bill number, the snapshot an earlier run parsed
  clients,     \* scraper: the callbacks that hold a client of the pool
  request,     \* server: the POST /api/collect request in flight, or the last one answered
  storage_briefs, \* server: storage.briefs, brief_id -> brief
  serverUuid,  \* server: crypto.randomUUID calls so far
  failed       \* server: the items whose analysis failed, with snapshot and request

fnVars   == <<fn>>
histVars == <<seenItems, now, billData, newItems, prevSeen>>
dbVars   == <<bills, bill_history, briefs, scraper_runs, uuidSeq>>
scrVars  == <<scope, phase, runNo, batchAt, task, stats, prevParsed, clients,
              bills, bill_history, briefs, scraper_runs, uuidSeq>>
collectVars == <<request, storage_briefs, serverUuid, failed>>
vars     == <<fn, seenItems, now, billData, newItems, prevSeen,
              scope, phase, runNo, batchAt, task, stats, prevParsed, clients,
              bills, bill_history, briefs, scraper_runs, uuidSeq,
              request, storage_briefs, serverUuid, failed>>

----------------------------------------------------------------------------
(* Bounds *)

MaxRows    == 2   \* history rows on one page (per-action mode)
MaxClock   == 2   \* clock readings (per-action mode)
HouseBills == 2   \* House numbers generateBillNumbers yields, for 5000
SenateBills == 1  \* Senate numbers generateBillNumbers yields, for 3000
BATCH_SIZE == 2   \* bills of one batch, for 10
MaxRuns    == 2   \* scraper runs over one bill

----------------------------------------------------------------------------
(* Text *)

SP == " "
COLON == ":"

\* String.prototype.toLowerCase on one fragment
LowerFragment(f) ==
  CASE f = "Enacted"   -> "enacted"
    [] f = "ENACTED"   -> "enacted"
    [] f = "Read"      -> "read"
    [] f = "H.1"       -> "h.1"
    [] f = "S.2"       -> "s.2"
    [] f = "Municipal" -> "municipal"
    [] f = "City"      -> "city"
    [] f = "Of"        -> "of"
    [] f = "Act"       -> "act"
    [] f = "Boston"    -> "boston"
    [] OTHER           -> f

toLowerCase(s) == [i \in DOMAIN s |-> LowerFragment(s[i])]

RECURSIVE trimStart(_)
trimStart(s) ==
  IF s # <<>> /\ Head(s) = SP THEN trimStart(Tail(s)) ELSE s

RECURSIVE trimEnd(_)
trimEnd(s) ==
  IF s # <<>> /\ s[Len(s)] = SP THEN trimEnd(SubSeq(s, 1, Len(s) - 1)) ELSE s

\* String.prototype.trim
trim(s) == trimEnd(trimStart(s))

\* String.prototype.includes
includes(s, k) ==
  \E i \in 1 .. (Len(s) - Len(k) + 1) : SubSeq(s, i, i + Len(k) - 1) = k

----------------------------------------------------------------------------
(* server.js, per-action mode *)

NoData == [billNumber |-> <<>>, historyRows |-> <<>>]

BILL_ACTION_TRIGGERS ==
  { <<"referred to">>, <<"committee recommends">>, <<"reported favorably">>,
    <<"public hearing">>, <<"passed to be engrossed">>, <<"enacted">>,
    <<"emergency preamble adopted">>, <<"returned">>, <<"governor signed">> }

\* the mutant: the action text is searched as it is spelled
shouldAnalyzeActionCased(actionText) ==
  LET lowerAction == actionText
  IN  \E trigger \in BILL_ACTION_TRIGGERS : includes(lowerAction, trigger)

shouldAnalyzeAction(actionText) ==
  LET lowerAction == toLowerCase(actionText)
  IN  \E trigger \in BILL_ACTION_TRIGGERS : includes(lowerAction, trigger)

generateItemId(billNumber, actionDate, actionText) ==
  LET normalized ==
        trim(toLowerCase(billNumber \o <<COLON>> \o actionDate \o <<COLON>> \o actionText))
  IN  [id16 |-> normalized]

calculateHash(text) == [sha256 |-> text]

\* server.js parseBillPage: the h1 bill number, the trimmed cells of the history
\* table, rows without a date or an action text left out
ParseError == [error |-> "Could not extract bill number from page"]

trimRow(cells) ==
  [date |-> trim(cells.date), branch |-> trim(cells.branch), action |-> trim(cells.action)]

RECURSIVE keptRows(_)
keptRows(rows) ==
  IF rows = <<>> THEN <<>>
  ELSE LET r == trimRow(Head(rows))
       IN  IF r.date # <<>> /\ r.action # <<>>
           THEN <<r>> \o keptRows(Tail(rows))
           ELSE keptRows(Tail(rows))

parseBillPage(page) ==
  IF page.h1 = <<>> THEN ParseError
  ELSE [billNumber |-> page.h1, historyRows |-> keptRows(page.rows)]

\* the mutant: an entry for the item is enough, whatever its hash
alreadyProcessedAnyHash(seen, itemId, contentHash) == itemId \in DOMAIN seen

\* processBillHistory, "if (seenItem && seenItem.sha256 === contentHash) continue"
alreadyProcessed(seen, itemId, contentHash) ==
  itemId \in DOMAIN seen /\ seen[itemId].sha256 = contentHash

\* the mutant: the map is replaced by the one entry
markSeenAlone(seen, itemId, contentHash, t) ==
  [x \in {itemId} |-> [sha256 |-> contentHash, last_seen |-> t]]

\* storage.seenItems.set(itemId, {sha256, last_seen})
markSeen(seen, itemId, contentHash, t) ==
  [x \in DOMAIN seen \cup {itemId} |->
     IF x = itemId THEN [sha256 |-> contentHash, last_seen |-> t] ELSE seen[x]]

\* the mutant: an action met again with the stored hash has its entry refreshed
processRowRefreshing(bd, historyRow, st, t) ==
  LET itemId      == generateItemId(bd.billNumber, historyRow.date, historyRow.action)
      contentHash == calculateHash(historyRow.action)
      item        == [item_id         |-> itemId,
                      bill_number     |-> bd.billNumber,
                      raw_text_sha256 |-> contentHash,
                      action_text     |-> historyRow.action,
                      action_date     |-> historyRow.date,
                      action_branch   |-> historyRow.branch]
  IN  IF alreadyProcessed(st.seen, itemId, contentHash)
      THEN [st EXCEPT !.seen = markSeen(st.seen, itemId, contentHash, t)]
      ELSE IF ~shouldAnalyzeAction(historyRow.action) THEN st
      ELSE [seen     |-> markSeen(st.seen, itemId, contentHash, t),
            newItems |-> Append(st.newItems, item)]

\* one iteration of the loop of processBillHistory; st = [seen, newItems]
processRow(bd, historyRow, st, t) ==
  LET itemId      == generateItemId(bd.billNumber, historyRow.date, historyRow.action)
      contentHash == calculateHash(historyRow.action)
      item        == [item_id         |-> itemId,
                      bill_number     |-> bd.billNumber,
                      raw_text_sha256 |-> contentHash,
                      action_text     |-> historyRow.action,
                      action_date     |-> historyRow.date,
                      action_branch   |-> historyRow.branch]
  IN  IF alreadyProcessed(st.seen, itemId, contentHash) THEN st
      ELSE IF ~shouldAnalyzeAction(historyRow.action) THEN st
      ELSE [seen     |-> markSeen(st.seen, itemId, contentHash, t),
            newItems |-> Append(st.newItems, item)]

RECURSIVE processRows(_, _, _, _)
processRows(bd, rows, st, t) ==
  IF rows = <<>> THEN st
  ELSE processRows(bd, Tail(rows), processRow(bd, Head(rows), st, t), t)

processBillHistory(bd, seen, t) ==
  processRows(bd, bd.historyRows, [seen |-> seen, newItems |-> <<>>], t)

----------------------------------------------------------------------------
(* Inputs of the per-action mode *)

BillNumbers == { <<"H.1">>, <<"S.2">> }

\* the cells of a history row as published; the site decides what they hold
Row(date, action) == [date |-> date, branch |-> <<"House">>, action |-> action]

ActionDates == { <<"1/1/2025">>, <<"1/1/2025", COLON, "enacted">> }

ActionCells ==
  { <<"Enacted">>, <<"ENACTED">>, <<SP, "Enacted">>, <<"Read">>,
    <<"enacted", COLON, "Read">>, <<SP>> }

RawRows ==
  { Row(<<"1/1/2025">>, <<"Enacted">>),
    Row(<<"1/1/2025">>, <<"ENACTED">>),
    Row(<<"1/1/2025">>, <<SP, "Enacted">>),
    Row(<<"1/1/2025">>, <<"Read">>),
    Row(<<"1/1/2025">>, <<"enacted", COLON, "Read">>),
    Row(<<"1/1/2025", COLON, "enacted">>, <<"Read">>),
    Row(<<"1/1/2025">>, <<SP>>) }

RECURSIVE SeqsUpTo(_, _)
SeqsUpTo(S, n) ==
  IF n = 0 THEN { <<>> }
  ELSE LET shorter == SeqsUpTo(S, n - 1)
       IN  shorter \cup { Append(q, x) : q \in { r \in shorter : Len(r) = n - 1 }, x \in S }

HistoryPages == [h1 : { <<"H.1">>, <<>> }, rows : SeqsUpTo(RawRows, MaxRows)]

ClockNext == { t \in now .. now + 1 : t <= MaxClock }

----------------------------------------------------------------------------
(* server.js, POST /api/collect: the request and its results object *)

MaxRequests == 2   \* requests the server receives

NoId == [id16 |-> <<>>]

NoPage == [h1 |-> <<>>, rows |-> <<>>]

\* "const results = { success: true, billsProcessed: 0, ... }"; results.logs,
\* which the handler appends to and never reads, is left out
ZeroResults ==
  [success |-> TRUE, billsProcessed |-> 0, itemsIdentified |-> 0, briefsCreated |-> 0,
   errors |-> <<>>, briefs |-> <<>>]

\* no request yet; status is the status of the response, 0 while there is none
NoRequest ==
  [pc |-> "idle", n |-> 0, billNumbers |-> <<>>, at |-> 0, page |-> NoPage, k |-> 0,
   billText |-> <<>>,
   results |-> ZeroResults, status |-> 0]

ServerOff ==
  /\ request = NoRequest
  /\ storage_briefs = << >>
  /\ serverUuid = 0
  /\ failed = {}

ScraperOff ==
  /\ scope = [house |-> 0, senate |-> 0, runs |-> 0, batch |-> 0]
  /\ phase = "off"
  /\ runNo = 0
  /\ batchAt = 0
  /\ task = << >>
  /\ stats = << >>
  /\ prevParsed = << >>
  /\ bills = << >>
  /\ bill_history = {}
  /\ briefs = {}
  /\ scraper_runs = << >>
  /\ uuidSeq = 0
  /\ clients = {}

----------------------------------------------------------------------------
(* SpecItemId: generateItemId on two action texts of one bill and date *)

FnTexts == ActionCells \cup { <<"Enacted", SP>>, <<"Read", SP, "Enacted">> }

FnInit ==
  /\ fn \in [billNumber : BillNumbers, actionDate : ActionDates,
             a : FnTexts, b : FnTexts, idA : {NoId}, idB : {NoId}, computed : {FALSE}]
  /\ seenItems = << >>
  /\ now = 0
  /\ billData = NoData
  /\ newItems = <<>>
  /\ prevSeen = << >>
  /\ ScraperOff
  /\ ServerOff

Fingerprint ==
  /\ ~fn.computed
  /\ fn' = [fn EXCEPT !.idA = generateItemId(fn.billNumber, fn.actionDate, fn.a),
                      !.idB = generateItemId(fn.billNumber, fn.actionDate, fn.b),
                      !.computed = TRUE]
  /\ UNCHANGED histVars
  /\ UNCHANGED scrVars
  /\ UNCHANGED collectVars

FnNext == Fingerprint

SpecItemId == FnInit /\ [][FnNext]_vars

----------------------------------------------------------------------------
(* SpecHistory: pages of one bill observed one after the other *)

HistInit ==
  /\ fn = [computed |-> FALSE]
  /\ seenItems = << >>
  /\ now = 0
  /\ billData = NoData
  /\ newItems = <<>>
  /\ prevSeen = << >>
  /\ ScraperOff
  /\ ServerOff

\* /api/collect, "parseBillPage(html, url)" then "processBillHistory(billData)"
Observe(page, t) ==
  /\ parseBillPage(page) # ParseError
  /\ billData' = parseBillPage(page)
  /\ LET st == processBillHistory(billData', seenItems, t)
     IN  /\ seenItems' = st.seen
         /\ newItems' = st.newItems
  /\ now' = t
  /\ prevSeen' = seenItems
  /\ UNCHANGED fnVars
  /\ UNCHANGED scrVars
  /\ UNCHANGED collectVars

HistNext == \E page \in HistoryPages, t \in ClockNext : Observe(page, t)

SpecHistory == HistInit /\ [][HistNext]_vars

----------------------------------------------------------------------------
(* The scraper, whole-bill mode: pure parts *)

\* generateBillNumbers: H1 .. H<house>, then S1 .. S<senate>
generateBillNumbers(house, senate) ==
  [i \in 1 .. house |-> [chamber |-> "H", number |-> i]]
    \o [i \in 1 .. senate |-> [chamber |-> "S", number |-> i]]

AllBillNumbers ==
  { [chamber |-> "H", number |-> i] : i \in 1 .. HouseBills }
    \cup { [chamber |-> "S", number |-> i] : i \in 1 .. SenateBills }

\* an element the page does not have; a bill number the h1 does not show
Absent  == << "(no element)" >>
NoMatch == [chamber |-> "", number |-> 0]

MUNICIPAL_KEYWORDS ==
  { <<"municipality">>, <<"municipal">>, <<"city", SP, "of">>, <<"town", SP, "of">>,
    <<"election">>, <<"zoning">>, <<"water">>, <<"pension">> }

\* the mutant: every keyword has to occur, not some
matchesEveryKeyword(text) ==
  LET lowerText == toLowerCase(text)
  IN  \A keyword \in MUNICIPAL_KEYWORDS : includes(lowerText, toLowerCase(keyword))

matchesMunicipalKeywords(text) ==
  LET lowerText == toLowerCase(text)
  IN  \E keyword \in MUNICIPAL_KEYWORDS : includes(lowerText, toLowerCase(keyword))

\* runScraper, `${billData.title} ${billData.currentStatus}`
textToCheck(bd) == bd.title \o <<SP>> \o bd.currentStatus

\* the scraper's parseBillPage: every row of three cells is kept, cells trimmed
ScrapeError == [error |-> "Could not extract bill number"]

\* the mutant: a page without a bill number yields a snapshot all the same
scraperParseUnknown(page) ==
  [billNumber    |-> page.h1,
   title         |-> IF page.h2 = Absent THEN <<"Unknown Title">> ELSE trim(page.h2),
   currentStatus |-> IF page.pinslip = Absent THEN <<"Status unknown">>
                     ELSE trim(page.pinslip),
   historyRows   |-> [i \in DOMAIN page.rows |-> trimRow(page.rows[i])]]

scraperParse(page) ==
  IF page.h1 = NoMatch THEN ScrapeError
  ELSE [billNumber    |-> page.h1,
        title         |-> IF page.h2 = Absent THEN <<"Unknown Title">> ELSE trim(page.h2),
        currentStatus |-> IF page.pinslip = Absent THEN <<"Status unknown">>
                          ELSE trim(page.pinslip),
        historyRows   |-> [i \in DOMAIN page.rows |-> trimRow(page.rows[i])]]

\* JSON values of the relevance reply, by their literal
JTrue      == "true"
JFalse     == "false"
JStrFalse  == "'false'"
JUndefined == "undefined"

\* JavaScript truthiness, as "result.relevant && ..." reads it
truthy(v) == v \notin { JFalse, JUndefined }

\* what the engine call of checkRelevanceWithAI can end in: it throws, its text
\* does not decode, it decodes to null, or it decodes to an object
RelevanceReply(kind, relevant, confidence) ==
  [kind |-> kind, relevant |-> relevant, confidence |-> confidence]
RelevanceFailures ==
  { RelevanceReply(k, JUndefined, JUndefined) : k \in { "throws", "undecodable", "null" } }
RelevanceObjects  ==
  { RelevanceReply("object", r, c) :
      r \in { JTrue, JFalse, JStrFalse, JUndefined }, c \in { "low", "medium", "high" } }
RelevanceReplies  == RelevanceFailures \cup RelevanceObjects

\* the mutant: an engine failure rejects the bill
checkRelevanceFailClosed(reply) ==
  IF reply \in RelevanceFailures THEN FALSE
  ELSE truthy(reply.relevant) /\ reply.confidence \in { "medium", "high" }

\* checkRelevanceWithAI: the value the caller tests with "if (!isRelevant)"
checkRelevanceWithAI(reply) ==
  IF reply \in RelevanceFailures THEN TRUE
  ELSE truthy(reply.relevant) /\ reply.confidence \in { "medium", "high" }

\* hasChanges, given whether its queries succeed
BillId(billNumber) == [bill |-> billNumber]

\* the mutant: a title that differs from the stored one counts as an update
hasChangesOrRetitled(bd, tblBills, tblHistory, queriesOk) ==
  IF ~queriesOk THEN [isNew |-> TRUE, hasUpdate |-> FALSE]
  ELSE IF bd.billNumber \notin DOMAIN tblBills THEN [isNew |-> TRUE, hasUpdate |-> FALSE]
  ELSE [isNew |-> FALSE,
        hasUpdate |-> \/ tblBills[bd.billNumber].title # bd.title
                      \/ \E i \in DOMAIN bd.historyRows :
                            ~\E h \in tblHistory :
                                /\ h.bill_id = tblBills[bd.billNumber].id
                                /\ h.action_date = bd.historyRows[i].date
                                /\ h.action_text = bd.historyRows[i].action]

hasChanges(bd, tblBills, tblHistory, queriesOk) ==
  IF ~queriesOk THEN [isNew |-> TRUE, hasUpdate |-> FALSE]
  ELSE IF bd.billNumber \notin DOMAIN tblBills THEN [isNew |-> TRUE, hasUpdate |-> FALSE]
  ELSE LET billId == tblBills[bd.billNumber].id
       IN  IF \E i \in DOMAIN bd.historyRows :
                 ~\E h \in tblHistory :
                     /\ h.bill_id = billId
                     /\ h.action_date = bd.historyRows[i].date
                     /\ h.action_text = bd.historyRows[i].action
           THEN [isNew |-> FALSE, hasUpdate |-> TRUE]
           ELSE [isNew |-> FALSE, hasUpdate |-> FALSE]

\* the mutant: the upsert leaves its own row only
upsertBillAlone(tblBills, bd, url, t) ==
  [b \in {bd.billNumber} |->
     [id |-> BillId(bd.billNumber), session |-> "2025-2026", title |-> bd.title,
      url |-> url, current_status |-> bd.currentStatus,
      last_checked |-> t, last_updated |-> t]]

\* storeBill, the upsert of the bills row
upsertBill(tblBills, bd, url, t) ==
  [b \in DOMAIN tblBills \cup {bd.billNumber} |->
     IF b = bd.billNumber
     THEN [id |-> BillId(bd.billNumber), session |-> "2025-2026", title |-> bd.title,
           url |-> url, current_status |-> bd.currentStatus,
           last_checked |-> t, last_updated |-> t]
     ELSE tblBills[b]]

\* the mutant: the insert without its ON CONFLICT clause
insertHistoryAlways(tblHistory, billId, row) ==
  tblHistory \cup { [bill_id |-> billId, action_date |-> row.date,
                     branch |-> row.branch, action_text |-> row.action] }

\* storeBill, one INSERT INTO bill_history ... ON CONFLICT DO NOTHING
insertHistory(tblHistory, billId, row) ==
  IF \E h \in tblHistory :
        h.bill_id = billId /\ h.action_date = row.date /\ h.action_text = row.action
  THEN tblHistory
  ELSE tblHistory \cup { [bill_id |-> billId, action_date |-> row.date,
                          branch |-> row.branch, action_text |-> row.action] }

RECURSIVE insertAllHistory(_, _, _)
insertAllHistory(tblHistory, billId, rows) ==
  IF rows = <<>> THEN tblHistory
  ELSE insertAllHistory(insertHistory(tblHistory, billId, Head(rows)), billId, Tail(rows))

\* storeBill, "await pool.connect()" and "client.release()"
connect(held, c) == held \cup {c}

\* the mutant: the client stays checked out
releaseForgotten(held, c) == held

release(held, c) == held \ {c}

\* the statements of storeBill: 0 pool.connect, 1 BEGIN, 2 the upsert,
\* 2 + i the insert of history row i, then COMMIT
StoreBillStatements(bd) == 0 .. Len(bd.historyRows) + 3

\* the tables as the transaction of storeBill sees them when statement k fails
inTransaction(tblBills, tblHistory, bd, url, t, k) ==
  IF k <= 2 THEN [bills |-> tblBills, bill_history |-> tblHistory]
  ELSE [bills        |-> upsertBill(tblBills, bd, url, t),
        bill_history |-> insertAllHistory(tblHistory, BillId(bd.billNumber),
                                          SubSeq(bd.historyRows, 1, k - 3))]

\* the mutant: the statements take effect one by one, ROLLBACK undoes nothing
rollbackKeeps(before, tx) == tx

\* storeBill, "await client.query('ROLLBACK')": the tables are as before BEGIN
rollback(before, tx) == before

\* what the engine call of analyzeBill can end in
ValidAnalysis ==
  [summary |-> "summary", why_it_matters |-> "why", who_should_care |-> {"Municipal Clerk"},
   what_to_do |-> "monitor", recommended_next_steps |-> <<"track">>, urgency |-> "low",
   action_types |-> {"procedure"}, confidence |-> "high", model_notes |-> "notes"]
EmptyAnalysis ==
  [summary |-> JUndefined, why_it_matters |-> JUndefined, who_should_care |-> {},
   what_to_do |-> JUndefined, recommended_next_steps |-> <<>>, urgency |-> JUndefined,
   action_types |-> {}, confidence |-> JUndefined, model_notes |-> JUndefined]
AnalysisReply(kind, body) == [kind |-> kind, body |-> body]
AnalysisFailures == { AnalysisReply(k, EmptyAnalysis) : k \in { "throws", "undecodable" } }
AnalysisNull     == AnalysisReply("null", EmptyAnalysis)
AnalysisObjects  == { AnalysisReply("object", b) : b \in { ValidAnalysis, EmptyAnalysis } }
AnalysisReplies  == AnalysisFailures \cup { AnalysisNull } \cup AnalysisObjects

\* fetchBillText: the text of the PDF, or null
NoText    == << "(null)" >>
BillTexts == { <<"Section", SP, "1">>, NoText }

\* the mutant: every row gets the same brief_id
briefRowSameId(briefId, billId, billText, analysis) ==
  [brief_id |-> 0, bill_id |-> billId, summary |-> analysis.summary,
   why_it_matters |-> analysis.why_it_matters, who_should_care |-> analysis.who_should_care,
   what_to_do |-> analysis.what_to_do,
   recommended_next_steps |-> analysis.recommended_next_steps,
   urgency |-> analysis.urgency, action_types |-> analysis.action_types,
   confidence |-> analysis.confidence, model_notes |-> analysis.model_notes,
   bill_text |-> billText]

\* storeBrief, the row it inserts
briefRow(briefId, billId, billText, analysis) ==
  [brief_id |-> briefId, bill_id |-> billId, summary |-> analysis.summary,
   why_it_matters |-> analysis.why_it_matters, who_should_care |-> analysis.who_should_care,
   what_to_do |-> analysis.what_to_do,
   recommended_next_steps |-> analysis.recommended_next_steps,
   urgency |-> analysis.urgency, action_types |-> analysis.action_types,
   confidence |-> analysis.confidence, model_notes |-> analysis.model_notes,
   bill_text |-> billText]

----------------------------------------------------------------------------
(* The pages the site serves *)

HRow(date, branch, action) == [date |-> date, branch |-> branch, action |-> action]

Referred  == HRow(<<"1/1/2025">>, <<"House">>, <<"Referred">>)
ReferredSenate == HRow(<<"1/1/2025">>, <<"Senate">>, <<"Referred">>)
Reported  == HRow(<<"2/1/2025">>, <<"House">>, <<"Reported">>)

PageOf(billNumber, h2, pinslip, rows) ==
  [h1 |-> billNumber, h2 |-> h2, pinslip |-> pinslip, rows |-> rows]

\* the page of bill number c: its h1 shows c, or no bill number at all
PagesOf(c) ==
  { PageOf(c, <<"Municipal", SP, "Act">>, <<"Act">>, <<Referred>>),
    PageOf(c, <<"Municipal", SP, "Act">>, <<"Act">>, <<Referred, ReferredSenate>>),
    PageOf(c, <<"Act", SP, "City">>, <<"of", SP, "Boston">>, <<Referred>>),
    PageOf(c, <<"Act", SP, "City">>, <<"of", SP, "Boston">>, <<Referred, Reported>>),
    PageOf(c, <<"Act">>, Absent, <<Referred>>),
    PageOf(NoMatch, <<"Act">>, Absent, <<>>) }

\* what fetch(url) can end in: a page, a 404, another error status, no answer
NullPage == PageOf(NoMatch, Absent, Absent, <<>>)
HttpReply(kind, page) == [kind |-> kind, page |-> page]

\* the scraper's fetchBillPage: the page, or null for a 404 and for every error
scraperFetchBillPage(reply) ==
  IF reply.kind = "ok" THEN reply.page ELSE NullPage

FetchReplies(c) ==
  { HttpReply(k, NullPage) : k \in { "404", "500", "network error" } }
    \cup { HttpReply("ok", page) : page \in PagesOf(c) }

NoBill == [billNumber |-> NoMatch, title |-> <<>>, currentStatus |-> <<>>, historyRows |-> <<>>]

IsPrefix(p, q) == Len(p) <= Len(q) /\ SubSeq(q, 1, Len(p)) = p

\* the history of a bill only grows from one run to the next
Republished(c, page) ==
  IF scraperParse(page) = ScrapeError THEN TRUE
  ELSE IsPrefix(prevParsed[c].historyRows, scraperParse(page).historyRows)

----------------------------------------------------------------------------
(* SpecParse: the two parseBillPage functions on one published page *)

\* the rows a page can show: those of RawRows, and a row without a date
ParseRows == RawRows \cup { Row(<<SP>>, <<"Read">>) }

ParsePages ==
  [h1 : { [chamber |-> "H", number |-> 1], NoMatch }, h2 : { <<"Municipal", SP, "Act">> },
   pinslip : { Absent }, rows : SeqsUpTo(ParseRows, MaxRows)]

\* the page as server.js reads it: the bill number of the h1 as a string
ServerPage(page) ==
  [h1 |-> IF page.h1 = NoMatch THEN <<>> ELSE <<"H.1">>, rows |-> page.rows]

ParseInit ==
  /\ fn \in [page : ParsePages, server : {NoData}, scraper : {NoBill}, computed : {FALSE}]
  /\ seenItems = << >>
  /\ now = 0
  /\ billData = NoData
  /\ newItems = <<>>
  /\ prevSeen = << >>
  /\ ScraperOff
  /\ ServerOff

\* parseBillPage(html, url) of server.js and of the scraper on the page
Parse ==
  /\ ~fn.computed
  /\ fn' = [fn EXCEPT !.server = parseBillPage(ServerPage(fn.page)),
                      !.scraper = scraperParse(fn.page),
                      !.computed = TRUE]
  /\ UNCHANGED histVars
  /\ UNCHANGED scrVars
  /\ UNCHANGED collectVars

ParseNext == Parse

SpecParse == ParseInit /\ [][ParseNext]_vars

----------------------------------------------------------------------------
(* The scraper, whole-bill mode: runScraper *)

billNumbers == generateBillNumbers(scope.house, scope.senate)

\* the mutant: billNumbers.slice(i), every bill that is left
BatchOfAllLeft(i) ==
  { billNumbers[k] : k \in { j \in DOMAIN billNumbers : i < j } }

\* billNumbers.slice(i, i + BATCH_SIZE)
Batch(i) ==
  { billNumbers[k] : k \in { j \in DOMAIN billNumbers : i < j /\ j <= i + scope.batch } }

IdleTask ==
  [pc |-> "idle", billData |-> NoBill, billText |-> NoText, analysis |-> EmptyAnalysis,
   briefId |-> 0, change |-> "none", rel |-> "none", outcome |-> "none", calls |-> 0]

ZeroStats ==
  [billsChecked |-> 0, billsFound |-> 0, passedKeywordFilter |-> 0, passedAIFilter |-> 0,
   billsUpdated |-> 0, briefsCreated |-> 0, errors |-> <<>>]

\* the mutant: an error leaves the callback rejected, outside the catch block
FinishedOrRejected(t, outcome) ==
  IF outcome = "error" THEN [t EXCEPT !.pc = "rejected"]
  ELSE [IdleTask EXCEPT !.pc = "done", !.billData = t.billData, !.outcome = outcome,
                        !.calls = t.calls]

\* the callback of a bill returns or lands in its catch block: the locals go,
\* the snapshot, the outcome and the count of engine calls stay for the record
Finished(t, outcome) ==
  [IdleTask EXCEPT !.pc = "done", !.billData = t.billData, !.outcome = outcome,
                   !.calls = t.calls]

\* stats.errors.push({ bill: billNum, error: error.message })
pushError(st, c, message) ==
  [st EXCEPT !.errors = Append(@, [bill |-> c, error |-> message])]

\* batch.map(async (billNum) => ...): every callback runs up to its first await
StartBatch(i, st) ==
  /\ batchAt' = i
  /\ task' = [c \in AllBillNumbers |->
                IF c \in Batch(i) THEN [IdleTask EXCEPT !.pc = "fetchBillPage"] ELSE task[c]]
  /\ stats' = [st EXCEPT !.billsChecked = @ + Cardinality(Batch(i))]
  /\ phase' = "batch"

\* a process starts; INSERT INTO scraper_runs succeeds and the first batch is mapped
RunInserted ==
  /\ UNCHANGED <<fnVars, histVars, collectVars, clients>>
  /\ phase = "off"
  /\ runNo < scope.runs
  /\ runNo' = runNo + 1
  /\ scraper_runs' = [r \in DOMAIN scraper_runs \cup {runNo'} |->
                        IF r = runNo'
                        THEN [status |-> "running", bills_checked |-> 0, bills_updated |-> 0,
                              briefs_created |-> 0, errors |-> <<>>, completed |-> FALSE]
                        ELSE scraper_runs[r]]
  /\ prevParsed' = [c \in AllBillNumbers |->
                      IF task[c].billData # NoBill THEN task[c].billData ELSE prevParsed[c]]
  /\ StartBatch(0, ZeroStats)
  /\ UNCHANGED <<scope, bills, bill_history, briefs, uuidSeq>>

\* a process starts; INSERT INTO scraper_runs fails, runScraper().catch exits with 1
RunInsertFails ==
  /\ UNCHANGED <<fnVars, histVars, collectVars, clients>>
  /\ phase = "off"
  /\ runNo < scope.runs
  /\ runNo' = runNo + 1
  /\ UNCHANGED <<scope, phase, batchAt, task, stats, prevParsed, dbVars>>

\* await fetchBillPage(billNum) resumes; parse and stage 1 follow without a pause
FetchBillPageReturns(c, reply) ==
  /\ UNCHANGED <<fnVars, histVars, collectVars, clients>>
  /\ phase = "batch"
  /\ task[c].pc = "fetchBillPage"
  /\ reply \in FetchReplies(c)
  /\ IF scraperFetchBillPage(reply) = NullPage
     THEN /\ task' = [task EXCEPT ![c] =
                        Finished(@, IF reply.kind = "404" THEN "notFound" ELSE "fetchFailed")]
          /\ UNCHANGED stats
     ELSE LET page  == scraperFetchBillPage(reply)
              bd    == scraperParse(page)
              found == [stats EXCEPT !.billsFound = @ + 1]
          IN  /\ Republished(c, page)
              /\ IF bd = ScrapeError
                 THEN /\ task' = [task EXCEPT ![c] = Finished(@, "error")]
                      /\ stats' = pushError(found, c, ScrapeError.error)
                 ELSE IF ~matchesMunicipalKeywords(toLowerCase(textToCheck(bd)))
                 THEN /\ task' = [task EXCEPT ![c] =
                                    Finished([@ EXCEPT !.billData = bd], "filtered")]
                      /\ stats' = found
                 ELSE /\ task' = [task EXCEPT ![c].pc = "hasChanges", ![c].billData = bd]
                      /\ stats' = [found EXCEPT !.passedKeywordFilter = @ + 1]
  /\ UNCHANGED <<scope, phase, runNo, batchAt, prevParsed, dbVars>>

\* the mutant: a failed query of hasChanges reaches the catch block of the
\* callback
HasChangesReturnsRaising(c, queriesOk) ==
  /\ UNCHANGED <<fnVars, histVars, collectVars, clients>>
  /\ phase = "batch"
  /\ task[c].pc = "hasChanges"
  /\ LET changeCheck == hasChanges(task[c].billData, bills, bill_history, queriesOk)
     IN  IF ~queriesOk
         THEN /\ task' = [task EXCEPT ![c] = Finished(@, "error")]
              /\ stats' = pushError(stats, c, "hasChanges")
         ELSE IF ~changeCheck.isNew /\ ~changeCheck.hasUpdate
         THEN /\ task' = [task EXCEPT ![c] = Finished(@, "unchanged")]
              /\ UNCHANGED stats
         ELSE /\ task' = [task EXCEPT ![c].pc = "checkRelevanceWithAI",
                                       ![c].calls = @ + 1,
                                       ![c].change = IF changeCheck.isNew THEN "new"
                                                     ELSE "update"]
              /\ UNCHANGED stats
  /\ UNCHANGED <<scope, phase, runNo, batchAt, prevParsed, dbVars>>

\* await hasChanges(billData) resumes
HasChangesReturns(c, queriesOk) ==
  /\ UNCHANGED <<fnVars, histVars, collectVars, clients>>
  /\ phase = "batch"
  /\ task[c].pc = "hasChanges"
  /\ LET changeCheck == hasChanges(task[c].billData, bills, bill_history, queriesOk)
     IN  IF ~changeCheck.isNew /\ ~changeCheck.hasUpdate
         THEN task' = [task EXCEPT ![c] = Finished(@, "unchanged")]
         ELSE task' = [task EXCEPT ![c].pc = "checkRelevanceWithAI",
                                   ![c].calls = @ + 1,
                                   ![c].change = IF ~queriesOk THEN "newOnError"
                                                 ELSE IF changeCheck.isNew THEN "new"
                                                 ELSE "update"]
  /\ UNCHANGED <<scope, phase, runNo, batchAt, stats, prevParsed, dbVars>>

\* the mutant: a rejected bill gets its bills row, so that it is not met as
\* new again
RelevanceReturnsRecorded(c, reply) ==
  /\ UNCHANGED <<fnVars, histVars, collectVars, clients>>
  /\ phase = "batch"
  /\ task[c].pc = "checkRelevanceWithAI"
  /\ IF ~checkRelevanceWithAI(reply)
     THEN /\ task' = [task EXCEPT ![c] = Finished(@, "rejected")]
          /\ bills' = upsertBill(bills, task[c].billData, c, runNo)
          /\ bill_history' = insertAllHistory(bill_history,
                                              BillId(task[c].billData.billNumber),
                                              task[c].billData.historyRows)
          /\ UNCHANGED stats
     ELSE /\ task' = [task EXCEPT ![c].pc = "fetchBillText",
                                   ![c].rel = IF reply \in RelevanceFailures THEN "failed"
                                              ELSE "accepted"]
          /\ stats' = [stats EXCEPT !.passedAIFilter = @ + 1]
          /\ UNCHANGED <<bills, bill_history>>
  /\ UNCHANGED <<scope, phase, runNo, batchAt, prevParsed, briefs, scraper_runs, uuidSeq>>

\* await checkRelevanceWithAI(billData) resumes
RelevanceReturns(c, reply) ==
  /\ UNCHANGED <<fnVars, histVars, collectVars, clients>>
  /\ phase = "batch"
  /\ task[c].pc = "checkRelevanceWithAI"
  /\ IF ~checkRelevanceWithAI(reply)
     THEN /\ task' = [task EXCEPT ![c] = Finished(@, "rejected")]
          /\ UNCHANGED stats
     ELSE /\ task' = [task EXCEPT ![c].pc = "fetchBillText",
                                   ![c].rel = IF reply \in RelevanceFailures THEN "failed"
                                              ELSE "accepted"]
          /\ stats' = [stats EXCEPT !.passedAIFilter = @ + 1]
  /\ UNCHANGED <<scope, phase, runNo, batchAt, prevParsed, dbVars>>

\* await fetchBillText(billNum) resumes: a text or null, never an error
FetchBillTextReturns(c, text) ==
  /\ UNCHANGED <<fnVars, histVars, collectVars, clients>>
  /\ phase = "batch"
  /\ task[c].pc = "fetchBillText"
  /\ task' = [task EXCEPT ![c].pc = "storeBill", ![c].billText = text]
  /\ UNCHANGED <<scope, phase, runNo, batchAt, stats, prevParsed, dbVars>>

\* await storeBill(billData) resumes after COMMIT; analyzeBill is called
StoreBillCommits(c) ==
  /\ UNCHANGED <<fnVars, histVars, collectVars>>
  /\ phase = "batch"
  /\ task[c].pc = "storeBill"
  /\ bills' = upsertBill(bills, task[c].billData, c, runNo)
  /\ bill_history' = insertAllHistory(bill_history, BillId(task[c].billData.billNumber),
                                      task[c].billData.historyRows)
  /\ clients' = release(connect(clients, c), c)
  /\ task' = [task EXCEPT ![c].pc = "analyzeBill", ![c].calls = @ + 1]
  /\ UNCHANGED <<scope, phase, runNo, batchAt, stats, prevParsed,
                 briefs, scraper_runs, uuidSeq>>

\* statement k of storeBill fails: ROLLBACK if the client was obtained, release,
\* and the error reaches the catch block of the callback
StoreBillFails(c, k) ==
  /\ UNCHANGED <<fnVars, histVars, collectVars>>
  /\ phase = "batch"
  /\ task[c].pc = "storeBill"
  /\ k \in StoreBillStatements(task[c].billData)
  /\ LET before == [bills |-> bills, bill_history |-> bill_history]
         tx     == inTransaction(bills, bill_history, task[c].billData, c, runNo, k)
         after  == IF k = 0 THEN before ELSE rollback(before, tx)
     IN  /\ bills' = after.bills
         /\ bill_history' = after.bill_history
         /\ clients' = IF k = 0 THEN clients ELSE release(connect(clients, c), c)
  /\ task' = [task EXCEPT ![c] = Finished(@, "error")]
  /\ stats' = pushError(stats, c, "storeBill")
  /\ UNCHANGED <<scope, phase, runNo, batchAt, prevParsed, briefs, scraper_runs, uuidSeq>>

\* await analyzeBill(billData, billText) resumes; storeBrief draws its UUID and
\* reads the fields of the analysis before its INSERT
AnalyzeBillReturns(c, reply) ==
  /\ UNCHANGED <<fnVars, histVars, collectVars, clients>>
  /\ phase = "batch"
  /\ task[c].pc = "analyzeBill"
  /\ IF reply \in AnalysisFailures
     THEN /\ task' = [task EXCEPT ![c] = Finished(@, "error")]
          /\ stats' = pushError(stats, c, reply.kind)
          /\ UNCHANGED uuidSeq
     ELSE IF reply = AnalysisNull
     THEN /\ task' = [task EXCEPT ![c] = Finished(@, "error")]
          /\ stats' = pushError(stats, c, "TypeError")
          /\ uuidSeq' = uuidSeq + 1
     ELSE /\ task' = [task EXCEPT ![c].pc = "storeBrief", ![c].analysis = reply.body,
                                   ![c].briefId = uuidSeq + 1]
          /\ uuidSeq' = uuidSeq + 1
          /\ UNCHANGED stats
  /\ UNCHANGED <<scope, phase, runNo, batchAt, prevParsed,
                 bills, bill_history, briefs, scraper_runs>>

\* await storeBrief(...) resumes after its INSERT
StoreBriefInserts(c) ==
  /\ UNCHANGED <<fnVars, histVars, collectVars, clients>>
  /\ phase = "batch"
  /\ task[c].pc = "storeBrief"
  /\ briefs' = briefs \cup { briefRow(task[c].briefId, BillId(task[c].billData.billNumber),
                                      task[c].billText, task[c].analysis) }
  /\ stats' = [stats EXCEPT !.billsUpdated = @ + 1, !.briefsCreated = @ + 1]
  /\ task' = [task EXCEPT ![c] = Finished(@, "brief")]
  /\ UNCHANGED <<scope, phase, runNo, batchAt, prevParsed,
                 bills, bill_history, scraper_runs, uuidSeq>>

\* the mutant: the brief is counted before its INSERT is awaited
StoreBriefFailsCounted(c) ==
  /\ UNCHANGED <<fnVars, histVars, collectVars, clients>>
  /\ phase = "batch"
  /\ task[c].pc = "storeBrief"
  /\ task' = [task EXCEPT ![c] = Finished(@, "error")]
  /\ stats' = pushError([stats EXCEPT !.briefsCreated = @ + 1], c, "storeBrief")
  /\ UNCHANGED <<scope, phase, runNo, batchAt, prevParsed, dbVars>>

\* the INSERT of storeBrief fails
StoreBriefFails(c) ==
  /\ UNCHANGED <<fnVars, histVars, collectVars, clients>>
  /\ phase = "batch"
  /\ task[c].pc = "storeBrief"
  /\ task' = [task EXCEPT ![c] = Finished(@, "error")]
  /\ stats' = pushError(stats, c, "storeBrief")
  /\ UNCHANGED <<scope, phase, runNo, batchAt, prevParsed, dbVars>>

\* await Promise.all(...) resumes; the pause between batches begins
BatchSettles ==
  /\ UNCHANGED <<fnVars, histVars, collectVars, clients>>
  /\ phase = "batch"
  /\ \A c \in Batch(batchAt) : task[c].pc = "done"
  /\ phase' = "pause"
  /\ UNCHANGED <<scope, runNo, batchAt, task, stats, prevParsed, dbVars>>

\* the pause ends: the next batch is mapped, or the UPDATE of the run is sent
PauseEnds ==
  /\ UNCHANGED <<fnVars, histVars, collectVars, clients>>
  /\ phase = "pause"
  /\ IF batchAt + scope.batch < Len(billNumbers)
     THEN StartBatch(batchAt + scope.batch, stats)
     ELSE /\ phase' = "updateRun"
          /\ UNCHANGED <<batchAt, task, stats>>
  /\ UNCHANGED <<scope, runNo, prevParsed, dbVars>>

\* UPDATE scraper_runs ... succeeds; pool.end(), process.exit(0)
RunUpdated ==
  /\ UNCHANGED <<fnVars, histVars, collectVars, clients>>
  /\ phase = "updateRun"
  /\ scraper_runs' = [scraper_runs EXCEPT ![runNo] =
                        [status |-> "completed", bills_checked |-> stats.billsChecked,
                         bills_updated |-> stats.billsUpdated,
                         briefs_created |-> stats.briefsCreated,
                         errors |-> stats.errors, completed |-> TRUE]]
  /\ phase' = "off"
  /\ UNCHANGED <<scope, runNo, batchAt, task, stats, prevParsed,
                 bills, bill_history, briefs, uuidSeq>>

\* UPDATE scraper_runs ... fails; runScraper().catch exits with 1
RunUpdateFails ==
  /\ UNCHANGED <<fnVars, histVars, collectVars, clients>>
  /\ phase = "updateRun"
  /\ phase' = "off"
  /\ UNCHANGED <<scope, runNo, batchAt, task, stats, prevParsed, dbVars>>

ScraperNext ==
  \/ RunInserted
  \/ RunInsertFails
  \/ \E c \in AllBillNumbers : \E reply \in FetchReplies(c) : FetchBillPageReturns(c, reply)
  \/ \E c \in AllBillNumbers, ok \in BOOLEAN : HasChangesReturns(c, ok)
  \/ \E c \in AllBillNumbers, reply \in RelevanceReplies : RelevanceReturns(c, reply)
  \/ \E c \in AllBillNumbers, text \in BillTexts : FetchBillTextReturns(c, text)
  \/ \E c \in AllBillNumbers : StoreBillCommits(c)
  \/ \E c \in AllBillNumbers : \E k \in StoreBillStatements(task[c].billData) :
        StoreBillFails(c, k)
  \/ \E c \in AllBillNumbers, reply \in AnalysisReplies : AnalyzeBillReturns(c, reply)
  \/ \E c \in AllBillNumbers : StoreBriefInserts(c)
  \/ \E c \in AllBillNumbers : StoreBriefFails(c)
  \/ BatchSettles
  \/ PauseEnds
  \/ RunUpdated
  \/ RunUpdateFails

ScraperInit(house, senate, runs, batch) ==
  /\ fn = [computed |-> FALSE]
  /\ seenItems = << >>
  /\ now = 0
  /\ billData = NoData
  /\ newItems = <<>>
  /\ prevSeen = << >>
  /\ scope = [house |-> house, senate |-> senate, runs |-> runs, batch |-> batch]
  /\ phase = "off"
  /\ runNo = 0
  /\ batchAt = 0
  /\ task = [c \in AllBillNumbers |-> IdleTask]
  /\ stats = ZeroStats
  /\ prevParsed = [c \in AllBillNumbers |-> NoBill]
  /\ bills = << >>
  /\ bill_history = {}
  /\ briefs = {}
  /\ scraper_runs = << >>
  /\ uuidSeq = 0
  /\ clients = {}
  /\ ServerOff

\* one run over every generated bill number
SpecScraper == ScraperInit(HouseBills, SenateBills, 1, BATCH_SIZE) /\ [][ScraperNext]_vars

\* run after run over the first House bill
SpecRerun == ScraperInit(1, 0, MaxRuns, BATCH_SIZE) /\ [][ScraperNext]_vars

\* one run over two House bills in one batch
SpecScraperBatch == ScraperInit(2, 0, 1, BATCH_SIZE) /\ [][ScraperNext]_vars

\* one run over a House and a Senate bill, in batches of one bill
SpecScraperPair == ScraperInit(1, 1, 1, 1) /\ [][ScraperNext]_vars

\* one run over a House and a Senate bill, in batches of one bill, in which
\* every pending call returns or throws and every timer fires
SpecScraperFair ==
  ScraperInit(1, 1, 1, 1) /\ [][ScraperNext]_vars /\ WF_vars(ScraperNext)

----------------------------------------------------------------------------
(* server.js, POST /api/collect *)

\* the request body: billNumbers is missing, a string, an empty array, an
\* array of one bill or of two bills
Body(kind, items) == [kind |-> kind, items |-> items]

CollectBodies ==
  { Body("undefined", <<>>), Body("string", << <<"H.1">> >>), Body("array", <<>>),
    Body("array", << <<"H.1">> >>), Body("array", << <<"S.2">>, <<"H.1">> >>) }

\* the mutant: anything with a length passes
validBillNumbersByLength(body) == body.kind # "undefined" /\ Len(body.items) > 0

\* the negation of
\* "!billNumbers || !Array.isArray(billNumbers) || billNumbers.length === 0"
validBillNumbers(body) ==
  body.kind # "undefined" /\ body.kind = "array" /\ Len(body.items) > 0

\* the history tables the site shows for a bill
CollectRows(billNumber) ==
  IF billNumber = <<"H.1">>
  THEN { <<>>,
         << Row(<<"1/1/2025">>, <<"Read">>) >>,
         << Row(<<"1/1/2025">>, <<"Enacted">>) >>,
         << Row(<<"1/1/2025">>, <<"Enacted">>), Row(<<"1/1/2025">>, <<"ENACTED">>) >> }
  ELSE { << Row(<<"1/1/2025">>, <<"Enacted">>) >> }

\* the page of a bill: its h1 shows the bill number or none that the pattern matches
CollectPages(billNumber) ==
  { [h1 |-> billNumber, rows |-> rows] : rows \in CollectRows(billNumber) }
    \cup { NoPage }

\* server.js fetchBillPage: the page, or an error thrown for a status that is
\* not ok and for a failed fetch
ServerFetchReplies(billNumber) ==
  { HttpReply(k, NoPage) : k \in { "404", "network error" } }
    \cup { HttpReply("ok", page) : page \in CollectPages(billNumber) }

\* an engine reply with a value outside the vocabularies
OffVocabAnalysis ==
  [ValidAnalysis EXCEPT !.what_to_do = "review", !.urgency = "urgent",
                        !.confidence = "certain", !.who_should_care = {"Mayor"},
                        !.action_types = {"lobbying"}]

\* analyzeItem: what the engine call and JSON.parse can end in
ItemAnalysisReplies ==
  AnalysisFailures \cup { AnalysisNull }
    \cup { AnalysisReply("object", b) : b \in { ValidAnalysis, EmptyAnalysis, OffVocabAnalysis } }

\* "x || ''" and "x || []" of createBrief
orEmpty(x) == IF x = JUndefined THEN "" ELSE x

\* createBrief: the brief object
createBrief(item, analysis, briefId, t) ==
  [schema_version |-> "v1", brief_id |-> briefId, created_at |-> t,
   item |-> [item_id |-> item.item_id, bill_number |-> item.bill_number,
             raw_text_sha256 |-> item.raw_text_sha256],
   analysis |-> [summary |-> analysis.summary,
                 why_it_matters |-> analysis.why_it_matters,
                 who_should_care |-> analysis.who_should_care,
                 what_to_do |-> analysis.what_to_do,
                 recommended_next_steps |-> analysis.recommended_next_steps,
                 urgency |-> analysis.urgency,
                 action_types |-> analysis.action_types,
                 confidence |-> analysis.confidence,
                 model_notes |-> orEmpty(analysis.model_notes)]]

\* storage.briefs.set(brief.brief_id, brief)
setBrief(stored, brief) ==
  [x \in DOMAIN stored \cup {brief.brief_id} |->
     IF x = brief.brief_id THEN brief ELSE stored[x]]

\* the error log entry pushed to results.errors
errorLog(message, billNumber, itemId) ==
  [level |-> "error", message |-> message, bill |-> billNumber, item_id |-> itemId]

\* the mutant: success keeps the value it was initialised with
successAlways(errors) == TRUE

\* "results.success = results.errors.length === 0"
successOf(errors) == Len(errors) = 0

\* the end of one iteration of "for (const billNumber of billNumbers)": the
\* next bill is fetched, or the loop is over and res.json(results) is sent
nextBill(r) ==
  IF r.at < Len(r.billNumbers)
  THEN [r EXCEPT !.at = @ + 1, !.pc = "fetchBillPage", !.page = NoPage, !.k = 0]
  ELSE [r EXCEPT !.pc = "idle", !.page = NoPage, !.k = 0, !.status = 200,
                 !.results.success = successOf(r.results.errors)]

\* the catch block of the loop over the bills
billFailed(r) ==
  nextBill([r EXCEPT !.results.errors =
                       Append(@, errorLog("Failed to process bill", r.billNumbers[r.at], NoId))])

\* a request arrives: 400 for a body without bills, else the first fetch starts
CollectReceived(body) ==
  /\ request.pc = "idle"
  /\ request.n < MaxRequests
  /\ request' =
       IF ~validBillNumbers(body)
       THEN [NoRequest EXCEPT !.n = request.n + 1, !.status = 400]
       ELSE [NoRequest EXCEPT !.n = request.n + 1, !.billNumbers = body.items, !.at = 1,
                              !.pc = "fetchBillPage"]
  /\ UNCHANGED <<fnVars, histVars, scrVars, storage_briefs, serverUuid, failed>>

\* await fetchBillPage(billNumber) resumes or throws; fetchBillText is called
CollectPageReturns(reply) ==
  /\ request.pc = "fetchBillPage"
  /\ reply \in ServerFetchReplies(request.billNumbers[request.at])
  /\ request' = IF reply.kind = "ok"
                THEN [request EXCEPT !.pc = "fetchBillText", !.page = reply.page]
                ELSE billFailed(request)
  /\ UNCHANGED <<fnVars, histVars, scrVars, storage_briefs, serverUuid, failed>>

\* await fetchBillText(...) resumes, with a text or null (raw_text, which no
\* decision reads, is not kept); parseBillPage and processBillHistory follow
CollectTextReturns(t) ==
  /\ request.pc = "fetchBillText"
  /\ IF parseBillPage(request.page) = ParseError
     THEN /\ request' = billFailed(request)
          /\ UNCHANGED histVars
     ELSE LET bd == parseBillPage(request.page)
              st == processBillHistory(bd, seenItems, t)
              r  == [request EXCEPT !.results.itemsIdentified = @ + Len(st.newItems)]
          IN  /\ billData' = bd
              /\ seenItems' = st.seen
              /\ newItems' = st.newItems
              /\ prevSeen' = seenItems
              /\ now' = t
              /\ request' = IF st.newItems = <<>>
                            THEN nextBill([r EXCEPT !.results.billsProcessed = @ + 1])
                            ELSE [r EXCEPT !.pc = "analyzeItem", !.k = 1]
  /\ UNCHANGED <<fnVars, scrVars, storage_briefs, serverUuid, failed>>

\* the end of one iteration of "for (const item of newItems)"
nextItem(r) ==
  IF r.k < Len(newItems)
  THEN [r EXCEPT !.k = @ + 1]
  ELSE nextBill([r EXCEPT !.results.billsProcessed = @ + 1])

\* the mutant: the loop over the items has no try of its own, a failed
\* analysis lands in the catch block of the bill
CollectAnalysisRethrows(reply) ==
  /\ request.pc = "analyzeItem"
  /\ LET item == newItems[request.k]
     IN  IF reply \in AnalysisFailures \/ reply = AnalysisNull
         THEN /\ request' = billFailed(request)
              /\ failed' = failed \cup { [item_id |-> item.item_id,
                                          sha256 |-> item.raw_text_sha256,
                                          snapshot |-> billData, n |-> request.n] }
              /\ serverUuid' = IF reply = AnalysisNull THEN serverUuid + 1 ELSE serverUuid
              /\ UNCHANGED storage_briefs
         ELSE LET brief == createBrief(item, reply.body, serverUuid + 1, now)
              IN  /\ storage_briefs' = setBrief(storage_briefs, brief)
                  /\ serverUuid' = serverUuid + 1
                  /\ request' =
                       nextItem([request EXCEPT !.results.briefs = Append(@, brief.brief_id),
                                                !.results.briefsCreated = @ + 1])
                  /\ UNCHANGED failed
  /\ UNCHANGED <<fnVars, histVars, scrVars>>

\* await analyzeItem(item) resumes or throws; createBrief follows
CollectAnalysisReturns(reply) ==
  /\ request.pc = "analyzeItem"
  /\ LET item == newItems[request.k]
     IN  IF reply \in AnalysisFailures \/ reply = AnalysisNull
         THEN /\ request' =
                   nextItem([request EXCEPT !.results.errors =
                               Append(@, errorLog("Failed to analyze item",
                                                  item.bill_number, item.item_id))])
              /\ failed' = failed \cup { [item_id |-> item.item_id,
                                          sha256 |-> item.raw_text_sha256,
                                          snapshot |-> billData, n |-> request.n] }
              /\ serverUuid' = IF reply = AnalysisNull THEN serverUuid + 1 ELSE serverUuid
              /\ UNCHANGED storage_briefs
         ELSE LET brief == createBrief(item, reply.body, serverUuid + 1, now)
              IN  /\ storage_briefs' = setBrief(storage_briefs, brief)
                  /\ serverUuid' = serverUuid + 1
                  /\ request' =
                       nextItem([request EXCEPT !.results.briefs = Append(@, brief.brief_id),
                                                !.results.briefsCreated = @ + 1])
                  /\ UNCHANGED failed
  /\ UNCHANGED <<fnVars, histVars, scrVars>>

CollectNext ==
  \/ \E body \in CollectBodies : CollectReceived(body)
  \/ \E billNumber \in BillNumbers : \E reply \in ServerFetchReplies(billNumber) :
        CollectPageReturns(reply)
  \/ \E t \in ClockNext : CollectTextReturns(t)
  \/ \E reply \in ItemAnalysisReplies : CollectAnalysisReturns(reply)

CollectInit == HistInit

\* requests to one server process, one after the other
SpecCollect == CollectInit /\ [][CollectNext]_vars

----------------------------------------------------------------------------
(* server.js, whole-bill version of POST /api/collect *)

\* the request body: an empty array, one bill, the same bill twice
WholeBodies ==
  { Body("array", <<>>), Body("array", << <<"H.1">> >>),
    Body("array", << <<"H.1">>, <<"H.1">> >>) }

\* createBrief(billData, billText, analysis); "billText || billData.currentStatus",
\* and these pages have no pinslip
wholeCreateBrief(bd, billText, analysis, briefId, t) ==
  [schema_version |-> "v1", brief_id |-> briefId, created_at |-> t,
   item |-> [bill_number |-> bd.billNumber,
             raw_text |-> IF billText = NoText THEN <<"Status unknown">> ELSE billText,
             history |-> bd.historyRows],
   analysis |-> [summary |-> analysis.summary,
                 why_it_matters |-> analysis.why_it_matters,
                 who_should_care |-> analysis.who_should_care,
                 what_to_do |-> analysis.what_to_do,
                 recommended_next_steps |-> analysis.recommended_next_steps,
                 urgency |-> analysis.urgency,
                 action_types |-> analysis.action_types,
                 confidence |-> analysis.confidence,
                 model_notes |-> orEmpty(analysis.model_notes)]]

\* await fetchBillText(billNumber, '194') resumes, with a text or null;
\* parseBillPage follows and analyzeBill is called
WholeTextReturns(text) ==
  /\ request.pc = "fetchBillText"
  /\ request' = IF parseBillPage(request.page) = ParseError
                THEN billFailed(request)
                ELSE [request EXCEPT !.pc = "analyzeBill", !.billText = text]
  /\ UNCHANGED <<fnVars, histVars, scrVars, storage_briefs, serverUuid, failed>>

\* await analyzeBill(billData, billText) resumes or throws; createBrief follows
WholeAnalysisReturns(reply, t) ==
  /\ request.pc = "analyzeBill"
  /\ IF reply \in AnalysisFailures
     THEN /\ request' = billFailed(request)
          /\ UNCHANGED <<storage_briefs, serverUuid, now>>
     ELSE IF reply = AnalysisNull
     THEN /\ request' = billFailed(request)
          /\ serverUuid' = serverUuid + 1
          /\ now' = t
          /\ UNCHANGED storage_briefs
     ELSE LET brief == wholeCreateBrief(parseBillPage(request.page), request.billText,
                                        reply.body, serverUuid + 1, t)
          IN  /\ storage_briefs' = setBrief(storage_briefs, brief)
              /\ serverUuid' = serverUuid + 1
              /\ now' = t
              /\ request' = nextBill([request EXCEPT
                                        !.results.briefs = Append(@, brief),
                                        !.results.briefsCreated = @ + 1,
                                        !.results.billsProcessed = @ + 1])
  /\ UNCHANGED <<fnVars, seenItems, billData, newItems, prevSeen, scrVars, failed>>

WholeNext ==
  \/ \E body \in WholeBodies : CollectReceived(body)
  \/ \E billNumber \in BillNumbers : \E reply \in ServerFetchReplies(billNumber) :
        CollectPageReturns(reply)
  \/ \E text \in BillTexts : WholeTextReturns(text)
  \/ \E reply \in AnalysisReplies : \E t \in ClockNext : WholeAnalysisReturns(reply, t)

\* requests to one server process of the whole-bill version
SpecCollectWhole == HistInit /\ [][WholeNext]_vars

----------------------------------------------------------------------------
(* Properties of generateItemId *)

\* two action texts that differ in letter case and outer blanks at most
Cosmetic(a, b) == trim(toLowerCase(a)) = trim(toLowerCase(b))

\* C3: two inputs that differ only in the letter case or in the whitespace of
\* the action text have the same itemId.
C3_CosmeticSameItemId ==
  (fn.computed /\ Cosmetic(fn.a, fn.b)) => fn.idA = fn.idB

----------------------------------------------------------------------------
(* Properties of processBillHistory *)

RowId(i)   == generateItemId(billData.billNumber, billData.historyRows[i].date,
                             billData.historyRows[i].action)
RowHash(i) == calculateHash(billData.historyRows[i].action)
RowIdx     == DOMAIN billData.historyRows

\* the first row of the snapshot with its itemId: the pass meets it with the
\* entry the pass found in storage.seenItems
FirstOfId(i) == \A j \in RowIdx : j < i => RowId(j) # RowId(i)
LastOfId(i)  == \A j \in RowIdx : j > i => RowId(j) # RowId(i)

Emitted(i) ==
  \E k \in DOMAIN newItems :
     /\ newItems[k].item_id = RowId(i)
     /\ newItems[k].raw_text_sha256 = RowHash(i)
     /\ newItems[k].action_text = billData.historyRows[i].action

\* C1: processBillHistory run a second time on the snapshot it has just
\* processed returns no candidate and changes no SeenState entry.
C1_SecondPassIdle ==
  [][\A page \in HistoryPages, t \in ClockNext :
       (Observe(page, t) /\ parseBillPage(page) = billData)
          => (newItems' = <<>> /\ seenItems' = seenItems)]_vars

\* C4: an action recorded in SeenState and observed again with a text that
\* differs in letter case or outer blanks only is not emitted and its entry
\* is left as it was.
C4_CosmeticUnchanged ==
  \A i \in RowIdx :
     (/\ RowId(i) \in DOMAIN prevSeen
      /\ Cosmetic(billData.historyRows[i].action, prevSeen[RowId(i)].sha256.sha256))
     => (/\ \A k \in DOMAIN newItems : newItems[k].item_id # RowId(i)
         /\ seenItems[RowId(i)] = prevSeen[RowId(i)])

\* an entry of SeenState with another hash awaits row i
Updated(i) ==
  /\ FirstOfId(i)
  /\ RowId(i) \in DOMAIN prevSeen
  /\ prevSeen[RowId(i)].sha256 # RowHash(i)

Overwritten(i) ==
  LastOfId(i) => seenItems[RowId(i)] = [sha256 |-> RowHash(i), last_seen |-> now]

\* C5 as stated: an action whose itemId is in SeenState with another hash is
\* emitted and its entry overwritten with the new hash and timestamp.
C5_UpdatedEmitted ==
  \A i \in RowIdx : Updated(i) => (Emitted(i) /\ Overwritten(i))

\* C5 as amended: an action whose itemId is in SeenState with another hash
\* and whose text holds a trigger phrase is emitted and its entry overwritten
\* with the new hash and timestamp.
C5_UpdatedTriggerEmitted ==
  \A i \in RowIdx :
     (Updated(i) /\ shouldAnalyzeAction(billData.historyRows[i].action))
        => (Emitted(i) /\ Overwritten(i))

C5_Witness ==
  \E i \in RowIdx :
     /\ Updated(i)
     /\ shouldAnalyzeAction(billData.historyRows[i].action)
     /\ Emitted(i)
     /\ seenItems[RowId(i)].sha256 = RowHash(i)
     /\ seenItems[RowId(i)].last_seen > prevSeen[RowId(i)].last_seen

----------------------------------------------------------------------------
(* Properties of the scraper *)

Running(c) == task[c].pc \in { "fetchBillPage", "hasChanges", "checkRelevanceWithAI",
                               "fetchBillText", "storeBill", "analyzeBill", "storeBrief" }

ErrorsOf(c) == { k \in DOMAIN stats.errors : stats.errors[k].bill = c }

HistoryOf(billNumber) == { h \in bill_history : h.bill_id = BillId(billNumber) }
BriefsOf(billNumber)  == { b \in briefs : b.bill_id = BillId(billNumber) }

\* C2: a bill whose snapshot is the one an earlier run parsed, and whose
\* change check could query the store, is found unchanged: no relevance call,
\* no analysis call, no write follows.
C2_SecondRunIdle ==
  \A c \in DOMAIN task :
     (/\ task[c].billData # NoBill
      /\ task[c].billData = prevParsed[c]
      /\ task[c].change # "newOnError")
     => (~Running(c) \/ task[c].pc \in { "fetchBillPage", "hasChanges" }) /\ task[c].calls = 0

\* C6: when the batches are through and exactly one bill k failed while every
\* other bill got its brief, the error list has one entry, it names k, and
\* briefsCreated counts the other bills.
C6_OneFailureOneError ==
  phase = "updateRun" =>
    \A k \in Batch(0) \cup Batch(BATCH_SIZE) :
       (/\ task[k].outcome \in { "error", "fetchFailed" }
        /\ \A c \in DOMAIN billNumbers :
              billNumbers[c] # k => task[billNumbers[c]].outcome = "brief")
       => (/\ Len(stats.errors) = 1
           /\ stats.errors[1].bill = k
           /\ stats.briefsCreated = Len(billNumbers) - 1)

\* C7: when the relevance call fails (it throws, or its reply does not decode
\* to an object) the bill passes stage 2 and goes on to stage 3, and the
\* error list stays as it is.
C7_RelevanceFailOpen ==
  [][\A c \in AllBillNumbers, reply \in RelevanceFailures :
        RelevanceReturns(c, reply)
          => (/\ task'[c].pc = "fetchBillText"
              /\ stats'.passedAIFilter = stats.passedAIFilter + 1
              /\ stats'.errors = stats.errors)]_vars

C7_Witness ==
  \E c \in DOMAIN task :
     task[c].rel = "failed" /\ task[c].pc = "analyzeBill" /\ ErrorsOf(c) = {}

\* C8: a decoded reply passes stage 2 if and only if relevant is true and
\* confidence is medium or high.
C8_AdmitsIffTrueAndConfident ==
  [][\A c \in AllBillNumbers, reply \in RelevanceObjects :
        RelevanceReturns(c, reply)
          => ((task'[c].pc = "fetchBillText")
                <=> (reply.relevant = JTrue /\ reply.confidence \in { "medium", "high" }))]_vars

\* the title and the status, joined, hold none of the keywords
KeywordFree(bd) ==
  \A keyword \in MUNICIPAL_KEYWORDS :
     ~includes(toLowerCase(bd.title \o <<SP>> \o bd.currentStatus), keyword)

\* C9: a parsed bill without a keyword ends at stage 1 with no engine call,
\* no brief and no bill or history row, counted as checked and found but not
\* as passing the keyword filter; a bill with a keyword passes the gate.
C9_KeywordGate ==
  /\ \A c \in DOMAIN task :
        task[c].billData # NoBill =>
          IF KeywordFree(task[c].billData)
          THEN /\ task[c].pc = "done"
               /\ task[c].outcome = "filtered"
               /\ task[c].calls = 0
               /\ task[c].billData.billNumber \notin DOMAIN bills
               /\ HistoryOf(task[c].billData.billNumber) = {}
               /\ BriefsOf(task[c].billData.billNumber) = {}
          ELSE task[c].outcome # "filtered"
  /\ DOMAIN task # {} =>
       /\ stats.billsChecked = Cardinality({ c \in DOMAIN task : task[c].pc # "idle" })
       /\ stats.billsFound =
            Cardinality({ c \in DOMAIN task :
                            \/ task[c].billData # NoBill
                            \/ task[c].outcome \in { "filtered", "error" } })
       /\ stats.passedKeywordFilter =
            Cardinality({ c \in DOMAIN task :
                            task[c].billData # NoBill /\ ~KeywordFree(task[c].billData) })

C9_Witness ==
  /\ phase = "updateRun"
  /\ \E c \in DOMAIN task : task[c].outcome = "filtered" /\ task[c].billData # NoBill
  /\ \E c \in DOMAIN task : task[c].outcome = "brief"
  /\ stats.passedKeywordFilter < stats.billsFound

\* the (date, text) pairs of a snapshot
ActionsOf(bd) ==
  { <<bd.historyRows[i].date, bd.historyRows[i].action>> : i \in DOMAIN bd.historyRows }

\* C10: a bill that went through every stage of a run has one bills row, one
\* bill_history row for each of its (date, text) pairs, one brief and no
\* error entry, and briefsCreated counts such bills.
C10_EndToEnd ==
  /\ \A c \in DOMAIN task :
        task[c].outcome = "brief" =>
          LET bd == task[c].billData
          IN  /\ bd.billNumber \in DOMAIN bills
              /\ bills[bd.billNumber].title = bd.title
              /\ bills[bd.billNumber].current_status = bd.currentStatus
              /\ { <<h.action_date, h.action_text>> : h \in HistoryOf(bd.billNumber) }
                   = ActionsOf(bd)
              /\ Cardinality(HistoryOf(bd.billNumber)) = Cardinality(ActionsOf(bd))
              /\ Cardinality(BriefsOf(bd.billNumber)) = 1
              /\ ErrorsOf(c) = {}
  /\ DOMAIN task # {} =>
       stats.briefsCreated = Cardinality({ c \in DOMAIN task : task[c].outcome = "brief" })

C10_Witness ==
  /\ phase = "updateRun"
  /\ stats.briefsCreated = 1
  /\ stats.errors = <<>>
  /\ \E c \in DOMAIN task :
        /\ task[c].outcome = "brief"
        /\ Len(task[c].billData.historyRows) = 2
        /\ Cardinality(HistoryOf(task[c].billData.billNumber)) = 1
        /\ \E b \in BriefsOf(task[c].billData.billNumber) : b.what_to_do = "monitor"

----------------------------------------------------------------------------
(* Properties of POST /api/collect *)

\* C11: a response with the results object says success exactly when its
\* error list is empty, and a request with bills is answered with the results
\* object whatever failed.
C11_SuccessIffNoErrors ==
  /\ request.status = 200 =>
       /\ request.results.success <=> (request.results.errors = <<>>)
       /\ request.results.briefsCreated = Len(request.results.briefs)
  /\ (request.pc = "idle" /\ request.billNumbers # <<>>) => request.status = 200

C11_Witness ==
  /\ request.status = 200
  /\ ~request.results.success
  /\ Len(request.results.errors) = 2
  /\ request.results.briefsCreated = 1

\* C13: an item whose analysis failed in an earlier request is not emitted
\* again by a pass over the same snapshot.
C13_FailedNeverReemitted ==
  request.pc = "analyzeItem" =>
    \A f \in failed : \A i \in DOMAIN newItems :
       (f.n < request.n /\ f.snapshot = billData)
         => ~(newItems[i].item_id = f.item_id /\ newItems[i].raw_text_sha256 = f.sha256)

\* the fields an analysis must have, as far as they are texts
Complete(a) ==
  /\ a.summary # JUndefined
  /\ a.why_it_matters # JUndefined
  /\ a.what_to_do # JUndefined
  /\ a.urgency # JUndefined
  /\ a.confidence # JUndefined

\* C16: no stored brief lacks a required field of its analysis.
C16_NoMalformedBrief ==
  /\ \A b \in briefs : Complete(b)
  /\ \A id \in DOMAIN storage_briefs : Complete(storage_briefs[id].analysis)

MunicipalRoles ==
  { "Town Administrator/Manager", "Municipal Clerk", "Election Administrator",
    "Treasurer/Collector", "Finance Director", "Town Counsel", "DPW Director",
    "Chief Procurement Officer", "School Business Manager", "Board of Health Director",
    "Police Chief", "Planning Director" }

ActionTypes ==
  { "training", "forms", "procedure", "budget", "staffing", "policy_update",
    "legal_review", "technology", "communications" }

InVocabulary(a) ==
  /\ a.what_to_do \in { "monitor", "prepare", "act" }
  /\ a.urgency \in { "low", "medium", "high" }
  /\ a.confidence \in { "low", "medium", "high" }
  /\ a.who_should_care \subseteq MunicipalRoles
  /\ a.action_types \subseteq ActionTypes

\* C17: every stored brief that has its required fields has them from the
\* closed vocabularies.
C17_ClosedVocabularies ==
  /\ \A b \in briefs : Complete(b) => InVocabulary(b)
  /\ \A id \in DOMAIN storage_briefs :
        Complete(storage_briefs[id].analysis) => InVocabulary(storage_briefs[id].analysis)

\* C19: while no analysis has failed, no two stored briefs are about the same
\* item_id and content hash.
C19_OneBriefPerItemAndHash ==
  failed = {} =>
    \A x, y \in DOMAIN storage_briefs :
       (/\ storage_briefs[x].item.item_id = storage_briefs[y].item.item_id
        /\ storage_briefs[x].item.raw_text_sha256 = storage_briefs[y].item.raw_text_sha256)
       => x = y

----------------------------------------------------------------------------
(* Properties of the scraper run and of its writes *)

RunRecord == scraper_runs[runNo]

\* C12 as stated: a run that has begun its batches ends with its record completed.
C12_RunCompleted ==
  (phase = "batch") ~> (runNo \in DOMAIN scraper_runs /\ RunRecord.status = "completed")

\* C12: a run that has begun its batches gets through every bill and sends the
\* UPDATE of its record; when that statement succeeds the record is completed
\* and holds the counts and the error list of the run.
C12_BatchesThenUpdate ==
  /\ (phase = "batch") ~>
       (phase = "updateRun" /\ \A i \in DOMAIN billNumbers : task[billNumbers[i]].pc = "done")
  /\ [][RunUpdated =>
          /\ scraper_runs'[runNo].status = "completed"
          /\ scraper_runs'[runNo].completed
          /\ scraper_runs'[runNo].bills_checked = Len(billNumbers)
          /\ scraper_runs'[runNo].briefs_created = stats.briefsCreated
          /\ scraper_runs'[runNo].errors = stats.errors]_vars

C12_Witness ==
  /\ runNo \in DOMAIN scraper_runs
  /\ RunRecord.status = "completed"
  /\ Len(RunRecord.errors) = Len(billNumbers)

\* the bill of snapshot bd was committed by storeBill in an earlier run, with
\* every row of bd, and has no brief
CommittedWithoutBrief(bd) ==
  /\ bd.billNumber \in DOMAIN bills
  /\ bills[bd.billNumber].last_checked < runNo
  /\ \A a \in ActionsOf(bd) :
        \E h \in HistoryOf(bd.billNumber) : <<h.action_date, h.action_text>> = a
  /\ BriefsOf(bd.billNumber) = {}

\* C14: a bill that an earlier run committed and then failed to analyse or to
\* brief is skipped by every later run over the same snapshot: no relevance
\* call, no text fetch, no write and no analysis follows its change check.
C14_CommittedNotReattempted ==
  \A c \in DOMAIN task :
     (/\ task[c].billData # NoBill
      /\ task[c].billData = prevParsed[c]
      /\ CommittedWithoutBrief(task[c].billData))
     => task[c].pc \in { "hasChanges", "done" } /\ task[c].outcome \in { "none", "unchanged" }

\* the bill of snapshot bd is persisted, and so is every (date, text) of bd
AllPersisted(bd) ==
  /\ bd.billNumber \in DOMAIN bills
  /\ \A a \in ActionsOf(bd) :
        \E h \in HistoryOf(bd.billNumber) : <<h.action_date, h.action_text>> = a

\* C15: a change check whose queries succeed finds the bill unchanged exactly
\* when the bill and every (date, text) row of the snapshot are persisted,
\* whatever title and status are stored; a changed bill goes on with its whole
\* snapshot, and the snapshot handed to analyzeBill holds the rows of the
\* earlier run as well as the new ones.
C15_ChangedIffRowAbsent ==
  /\ [][\A c \in AllBillNumbers :
          HasChangesReturns(c, TRUE) =>
            /\ (task'[c].outcome = "unchanged") <=> AllPersisted(task[c].billData)
            /\ ~AllPersisted(task[c].billData) =>
                  /\ task'[c].pc = "checkRelevanceWithAI"
                  /\ task'[c].billData = task[c].billData]_vars
  /\ [](\A c \in AllBillNumbers :
          task[c].pc = "analyzeBill" =>
            /\ IsPrefix(prevParsed[c].historyRows, task[c].billData.historyRows)
            /\ AllPersisted(task[c].billData))

\* a retitled page whose rows are all persisted was found unchanged
C15_Witness ==
  \E c \in AllBillNumbers :
     /\ task[c].outcome = "unchanged"
     /\ task[c].billData.billNumber \in DOMAIN bills
     /\ bills[task[c].billData.billNumber].title # task[c].billData.title
     /\ bills[task[c].billData.billNumber].current_status # task[c].billData.currentStatus

\* C18: every step keeps each stored brief as it is, in the briefs table and in
\* storage.briefs, and a brief it adds has a brief_id that no stored brief has.
C18_BriefsOnlyGrow ==
  [][/\ briefs \subseteq briefs'
     /\ \A b \in briefs' \ briefs : \A o \in briefs : o.brief_id # b.brief_id
     /\ Cardinality(briefs' \ briefs) <= 1
     /\ DOMAIN storage_briefs \subseteq DOMAIN storage_briefs'
     /\ \A x \in DOMAIN storage_briefs : storage_briefs'[x] = storage_briefs[x]
     /\ \A x \in DOMAIN storage_briefs' : storage_briefs'[x].brief_id = x]_vars

\* a bill has two briefs, the second one from a later run
C18_Witness ==
  \E c \in AllBillNumbers :
     /\ Cardinality(BriefsOf(c)) = 2
     /\ runNo = 2

\* C20: a storeBill call in which a statement fails leaves bills and
\* bill_history as they were before the call, holds no client afterwards, and
\* adds one error entry for its bill while the batch goes on; a storeBill call
\* that commits holds no client either; a failed brief insert adds one error
\* entry and leaves the committed bill and history rows in place.
C20_AtomicBillWrite ==
  [][\A c \in AllBillNumbers :
       /\ (\E k \in StoreBillStatements(task[c].billData) : StoreBillFails(c, k)) =>
             /\ bills' = bills
             /\ bill_history' = bill_history
             /\ briefs' = briefs
             /\ clients' = {}
             /\ stats'.errors = Append(stats.errors, [bill |-> c, error |-> "storeBill"])
             /\ phase' = "batch"
             /\ \A d \in AllBillNumbers \ {c} : task'[d] = task[d]
       /\ StoreBillCommits(c) => clients' = {}
       /\ StoreBriefFails(c) =>
             /\ AllPersisted(task[c].billData)
             /\ bills' = bills
             /\ bill_history' = bill_history
             /\ stats'.errors = Append(stats.errors, [bill |-> c, error |-> "storeBrief"])
             /\ phase' = "batch"]_vars

\* the batches of a run are through; the storeBill of one bill failed and
\* nothing of the bill is stored, the brief insert of another bill failed and
\* its bill and history rows are stored
C20_Witness ==
  /\ phase = "updateRun"
  /\ \E i, j \in DOMAIN stats.errors :
        /\ stats.errors[i].error = "storeBill"
        /\ stats.errors[i].bill \notin DOMAIN bills
        /\ HistoryOf(stats.errors[i].bill) = {}
        /\ task[stats.errors[i].bill].billData.historyRows # <<>>
        /\ stats.errors[j].error = "storeBrief"
        /\ AllPersisted(task[stats.errors[j].bill].billData)

----------------------------------------------------------------------------
(* Properties of the tables *)

HistoryKey(h) == <<h.bill_id, h.action_date, h.action_text>>

\* C21: no two bill_history rows share (bill_id, action_date, action_text); no
\* step edits or removes a row; a committed storeBill adds one row for each
\* (date, text) of the snapshot that was not persisted and none for the others.
C21_HistoryAppendOnly ==
  /\ [](\A g, h \in bill_history : HistoryKey(g) = HistoryKey(h) => g = h)
  /\ [][bill_history \subseteq bill_history']_vars
  /\ [][\A c \in AllBillNumbers :
          StoreBillCommits(c) =>
            LET bd == task[c].billData
            IN  /\ { HistoryKey(h) : h \in bill_history' \ bill_history } =
                     { <<BillId(bd.billNumber), a[1], a[2]>> : a \in ActionsOf(bd) }
                       \ { HistoryKey(h) : h \in bill_history }
                /\ task'[c].pc = "analyzeBill"]_vars

\* storeBill has committed a snapshot with more rows than (date, text) pairs
C21_Witness ==
  \E c \in AllBillNumbers :
     /\ task[c].pc = "analyzeBill"
     /\ Cardinality(HistoryOf(c)) < Len(task[c].billData.historyRows)

\* the bills row of snapshot bd holds the title, url and status of bd
SameBillFields(bd, url) ==
  /\ bd.billNumber \in DOMAIN bills
  /\ bills[bd.billNumber].title = bd.title
  /\ bills[bd.billNumber].url = url
  /\ bills[bd.billNumber].current_status = bd.currentStatus

\* C22: a run that observes a stored bill and finds it unchanged sets its
\* last_checked to the time of the run, and an upsert that rewrites the title,
\* url and status the row already has leaves last_updated as it was.
C22_BillTimestamps ==
  [][\A c \in AllBillNumbers :
       /\ (HasChangesReturns(c, TRUE) /\ task'[c].outcome = "unchanged") =>
             bills'[task[c].billData.billNumber].last_checked = runNo
       /\ (StoreBillCommits(c) /\ SameBillFields(task[c].billData, c)) =>
             bills'[task[c].billData.billNumber].last_updated =
               bills[task[c].billData.billNumber].last_updated]_vars

----------------------------------------------------------------------------
(* Properties of the stages of a candidate *)

\* C23: a bill whose page fetch answered 404 has no entry in the error list of
\* the run, and a bill whose page fetch failed in another way has one.
C23_NotFoundVsTransient ==
  \A c \in AllBillNumbers :
     /\ task[c].outcome = "notFound" => ErrorsOf(c) = {}
     /\ task[c].outcome = "fetchFailed" => ErrorsOf(c) # {}

\* C24: a page whose h1 shows no bill number ends the candidate at
\* parseBillPage: one entry is added to the error list, no engine call is
\* made, and bills, bill_history, briefs, SeenState and storage.briefs stay as
\* they are.
C24_MissingIdentifierFails ==
  /\ [][\A c \in AllBillNumbers : \A reply \in FetchReplies(c) :
          (FetchBillPageReturns(c, reply) /\ reply.kind = "ok" /\ reply.page.h1 = NoMatch) =>
             /\ stats'.errors = Append(stats.errors, [bill |-> c, error |-> ScrapeError.error])
             /\ task'[c].pc = "done"
             /\ task'[c].calls = 0
             /\ task'[c].billData = NoBill
             /\ UNCHANGED <<bills, bill_history, briefs, uuidSeq>>]_vars
  /\ [][\A t \in 0 .. MaxClock :
          (CollectTextReturns(t) /\ request.page.h1 = <<>>) =>
             /\ Len(request'.results.errors) = Len(request.results.errors) + 1
             /\ request'.pc # "analyzeItem"
             /\ UNCHANGED <<seenItems, storage_briefs, serverUuid>>]_vars

\* the callback of a bill ended at parseBillPage and nothing of the bill is stored
C24_Witness ==
  \E c \in AllBillNumbers :
     /\ task[c].pc = "done"
     /\ task[c].outcome = "error"
     /\ task[c].billData = NoBill
     /\ \E k \in ErrorsOf(c) : stats.errors[k].error = ScrapeError.error
     /\ c \notin DOMAIN bills
     /\ HistoryOf(c) = {}
     /\ BriefsOf(c) = {}

\* C25: a request whose billNumbers is missing, not an array or empty is
\* answered with status 400 and starts nothing: no fetch follows, and SeenState
\* and storage.briefs stay as they are; a non-empty array starts its first fetch.
C25_EntryValidation ==
  /\ [][\A body \in CollectBodies :
          CollectReceived(body) =>
             IF body.kind = "array" /\ body.items # <<>>
             THEN request'.pc = "fetchBillPage" /\ request'.status = 0
             ELSE /\ request'.status = 400
                  /\ request'.pc = "idle"
                  /\ request'.results = ZeroResults
                  /\ UNCHANGED <<seenItems, storage_briefs, serverUuid>>]_vars
  /\ [](request.status = 400 => request.pc = "idle" /\ request.billNumbers = <<>>)

\* a second request was answered with 400 and the briefs of the first are there
C25_Witness ==
  /\ request.status = 400
  /\ request.n = 2
  /\ DOMAIN storage_briefs # {}
  /\ DOMAIN seenItems # {}

\* C26: while the analysis of a bill has not completed, the run has written
\* no bills row for it, and an analysis is under way only for a bill that
\* passed the keyword filter and the relevance filter.
C26_StageOrder ==
  \A c \in AllBillNumbers :
     /\ task[c].pc \in { "fetchBillPage", "hasChanges", "checkRelevanceWithAI",
                         "fetchBillText", "storeBill", "analyzeBill" } =>
           (c \in DOMAIN bills => bills[c].last_checked < runNo)
     /\ task[c].pc = "analyzeBill" =>
           /\ matchesMunicipalKeywords(toLowerCase(textToCheck(task[c].billData)))
           /\ task[c].rel \in { "accepted", "failed" }

InFlight == { c \in AllBillNumbers : Running(c) }

\* C27: at most BATCH_SIZE callbacks are in flight, they are bills of the
\* current batch of a run in its batch phase, and every bill of an earlier
\* batch has finished.
C27_BoundedFanOut ==
  /\ Cardinality(InFlight) <= BATCH_SIZE
  /\ InFlight # {} => phase = "batch"
  /\ \A k \in DOMAIN billNumbers :
        /\ Running(billNumbers[k]) => batchAt < k /\ k <= batchAt + BATCH_SIZE
        /\ (phase = "batch" /\ k <= batchAt) => task[billNumbers[k]].pc = "done"

\* the second batch is in flight after a first batch of BATCH_SIZE bills, one
\* of which ended in an error
C27_Witness ==
  /\ phase = "batch"
  /\ batchAt = BATCH_SIZE
  /\ InFlight # {}
  /\ \E k \in 1 .. batchAt : task[billNumbers[k]].outcome = "error"

\* C28: the bills a request has fetched so far are pairwise distinct, and so
\* are the bills of the briefs it has created.
C28_NoBillTwice ==
  /\ \A i, j \in 1 .. request.at : i < j => request.billNumbers[i] # request.billNumbers[j]
  /\ \A i, j \in DOMAIN request.results.briefs :
        i < j => request.results.briefs[i].item.bill_number #
                 request.results.briefs[j].item.bill_number

----------------------------------------------------------------------------
(* Properties of the batch *)

\* storeBill has committed for bill c in this run: analyzeBill was called
Committed(c) == task[c].calls = 2

\* what the run has stored for bill c follows from the outcome of c alone
StoredAsOutcome(c) ==
  IF Committed(c)
  THEN /\ c \in DOMAIN bills
       /\ bills[c].title = task[c].billData.title
       /\ bills[c].current_status = task[c].billData.currentStatus
       /\ { <<h.action_date, h.action_text>> : h \in HistoryOf(c) } =
            ActionsOf(task[c].billData)
       /\ Cardinality(BriefsOf(c)) = IF task[c].outcome = "brief" THEN 1 ELSE 0
  ELSE /\ c \notin DOMAIN bills
       /\ HistoryOf(c) = {}
       /\ BriefsOf(c) = {}

\* C29: a step that is not a step of bill c leaves the rows of c as they are,
\* and when the batches are through, the rows of every bill and the counters
\* follow from the outcomes of the bills, whatever the order of the steps was;
\* billsChecked is the number of bills.
C29_CandidatesCommute ==
  /\ [][\A c \in AllBillNumbers :
          task'[c] = task[c] =>
            /\ (c \in DOMAIN bills) = (c \in DOMAIN bills')
            /\ c \in DOMAIN bills => bills'[c] = bills[c]
            /\ { h \in bill_history' : h.bill_id = BillId(c) } = HistoryOf(c)
            /\ { b \in briefs' : b.bill_id = BillId(c) } = BriefsOf(c)]_vars
  /\ [](phase = "updateRun" =>
          LET done(o) == { k \in DOMAIN billNumbers : task[billNumbers[k]].outcome \in o }
          IN  /\ \A k \in DOMAIN billNumbers : StoredAsOutcome(billNumbers[k])
              /\ stats.billsChecked = Len(billNumbers)
              /\ stats.billsFound =
                   Len(billNumbers) - Cardinality(done({ "notFound", "fetchFailed" }))
              /\ stats.briefsCreated = Cardinality(done({ "brief" }))
              /\ stats.billsUpdated = Cardinality(done({ "brief" }))
              /\ Len(stats.errors) = Cardinality(done({ "error" }))
              /\ { stats.errors[e].bill : e \in DOMAIN stats.errors } =
                   { billNumbers[k] : k \in done({ "error" }) })

\* the batches are through; the two bills of the first batch got their briefs,
\* the second bill before the first
C29_Witness ==
  /\ phase = "updateRun"
  /\ \E b1 \in BriefsOf(billNumbers[1]), b2 \in BriefsOf(billNumbers[2]) :
        b2.brief_id < b1.brief_id

----------------------------------------------------------------------------
(* Properties of storage.seenItems *)

\* the itemId and the contentHash of row i of the snapshot a step processes
NextRowId(i) ==
  generateItemId(billData'.billNumber, billData'.historyRows[i].date,
                 billData'.historyRows[i].action)
NextRowHash(i) == calculateHash(billData'.historyRows[i].action)

\* no step removes an entry; an entry a step adds is the entry of a row of the
\* snapshot it processes; an entry a step changes is the entry of such a row
\* whose contentHash is not the stored one
SeenGrowsByRows ==
  [][/\ DOMAIN seenItems \subseteq DOMAIN seenItems'
     /\ \A x \in DOMAIN seenItems' \ DOMAIN seenItems :
           \E i \in DOMAIN billData'.historyRows :
              /\ NextRowId(i) = x
              /\ seenItems'[x].last_seen = now'
     /\ \A x \in DOMAIN seenItems :
           seenItems'[x] # seenItems[x] =>
             \E i \in DOMAIN billData'.historyRows :
                /\ NextRowId(i) = x
                /\ NextRowHash(i) # seenItems[x].sha256]_vars

\* C30 as stated: every itemId of the processed snapshot has an entry, entries
\* are added and changed only as above, and none is removed.
C30_SeenLifecycle ==
  /\ [](\A i \in RowIdx : RowId(i) \in DOMAIN seenItems)
  /\ SeenGrowsByRows

\* C30 as amended: every itemId of the processed snapshot whose action holds
\* a trigger phrase has an entry, entries are added and changed only as above,
\* and none is removed.
C30_SeenLifecycleOfTriggers ==
  /\ [](\A i \in RowIdx :
          shouldAnalyzeAction(billData.historyRows[i].action) =>
             RowId(i) \in DOMAIN seenItems)
  /\ SeenGrowsByRows

\* a pass has changed the hash of one entry and added another entry
C30_Witness ==
  /\ \E x \in DOMAIN prevSeen :
        /\ seenItems[x].sha256 # prevSeen[x].sha256
        /\ seenItems[x].last_seen > prevSeen[x].last_seen
  /\ DOMAIN seenItems \ DOMAIN prevSeen # {}

----------------------------------------------------------------------------
(* Properties of one pass of processBillHistory *)

\* a step in which processBillHistory runs over a parsed snapshot: a step of
\* Observe, or a step of CollectTextReturns whose page has a bill number
ProcessesSnapshot ==
  \/ request.pc = "idle" /\ request' = request /\ billData' # NoData
  \/ request.pc = "fetchBillText" /\ parseBillPage(request.page) # ParseError

\* the locals of the loop of that pass before and after its row i
LoopBefore(i) ==
  processRows(billData', SubSeq(billData'.historyRows, 1, i - 1),
              [seen |-> seenItems, newItems |-> <<>>], now')
LoopAfter(i) ==
  processRows(billData', SubSeq(billData'.historyRows, 1, i),
              [seen |-> seenItems, newItems |-> <<>>], now')

\* C31: a pass leaves storage.briefs as it is; the iteration of a row whose
\* itemId has an entry with the row's contentHash appends no candidate and
\* leaves storage.seenItems as it is; and when no row of the snapshot has that
\* itemId with another hash, the pass returns no candidate with that itemId
\* and the entry has its hash and last_seen of before the pass.
C31_UnchangedNoEffect ==
  [][ProcessesSnapshot =>
       /\ storage_briefs' = storage_briefs
       /\ \A i \in DOMAIN billData'.historyRows :
             LET x == NextRowId(i)
             IN  /\ (/\ x \in DOMAIN LoopBefore(i).seen
                     /\ LoopBefore(i).seen[x].sha256 = NextRowHash(i))
                       => LoopAfter(i) = LoopBefore(i)
                 /\ (/\ x \in DOMAIN seenItems
                     /\ seenItems[x].sha256 = NextRowHash(i)
                     /\ \A j \in DOMAIN billData'.historyRows :
                           NextRowId(j) = x => NextRowHash(j) = NextRowHash(i))
                       => /\ seenItems'[x] = seenItems[x]
                          /\ \A k \in DOMAIN newItems' : newItems'[k].item_id # x]_vars

\* a later pass met an action with its stored hash: nothing was emitted, the
\* entry still has the last_seen of the earlier pass, the brief of the earlier
\* pass is there
C31_Witness ==
  /\ \E i \in RowIdx :
        /\ RowId(i) \in DOMAIN prevSeen
        /\ prevSeen[RowId(i)].sha256 = RowHash(i)
        /\ seenItems[RowId(i)] = prevSeen[RowId(i)]
        /\ seenItems[RowId(i)].last_seen < now
  /\ newItems = <<>>
  /\ DOMAIN storage_briefs # {}

\* some trigger phrase occurs in the text, letter case aside
HoldsTrigger(text) ==
  \E trigger \in BILL_ACTION_TRIGGERS : includes(toLowerCase(text), toLowerCase(trigger))

\* the candidate of row i of the snapshot a step processes
NextItem(i) ==
  [item_id         |-> NextRowId(i),
   bill_number     |-> billData'.billNumber,
   raw_text_sha256 |-> NextRowHash(i),
   action_text     |-> billData'.historyRows[i].action,
   action_date     |-> billData'.historyRows[i].date,
   action_branch   |-> billData'.historyRows[i].branch]

\* C32: the iteration of a row appends the row's candidate and writes its
\* entry exactly when the row's itemId has no entry with the row's hash and
\* the row's text holds a trigger phrase in any letter case, and else changes
\* nothing; an itemId without an entry, none of whose rows holds a trigger
\* phrase, is not emitted and gets no entry; the pass returns what the loop
\* has collected; the handler hands every candidate of the pass to
\* analyzeItem and no step of the scraper's stages takes place.
C32_TriggerAdmission ==
  /\ [][ProcessesSnapshot =>
          /\ newItems' = LoopAfter(Len(billData'.historyRows)).newItems
          /\ seenItems' = LoopAfter(Len(billData'.historyRows)).seen
          /\ \A i \in DOMAIN billData'.historyRows :
                LET x      == NextRowId(i)
                    before == LoopBefore(i)
                    after  == LoopAfter(i)
                    fresh  == \/ x \notin DOMAIN before.seen
                              \/ before.seen[x].sha256 # NextRowHash(i)
                IN  /\ IF fresh /\ HoldsTrigger(billData'.historyRows[i].action)
                       THEN /\ after.newItems = Append(before.newItems, NextItem(i))
                            /\ after.seen = markSeen(before.seen, x, NextRowHash(i), now')
                       ELSE after = before
                    /\ (/\ x \notin DOMAIN seenItems
                        /\ \A j \in DOMAIN billData'.historyRows :
                              NextRowId(j) = x => ~HoldsTrigger(billData'.historyRows[j].action))
                          => /\ x \notin DOMAIN seenItems'
                             /\ \A k \in DOMAIN newItems' : newItems'[k].item_id # x]_vars
  /\ [][(request.pc = "fetchBillText" /\ parseBillPage(request.page) # ParseError) =>
          /\ request'.results.itemsIdentified =
                request.results.itemsIdentified + Len(newItems')
          /\ IF newItems' = <<>>
             THEN request'.pc \in { "fetchBillPage", "idle" }
             ELSE request'.pc = "analyzeItem" /\ request'.k = 1
          /\ UNCHANGED <<task, stats, phase>>]_vars
  /\ [](/\ request.pc \in { "idle", "fetchBillPage", "fetchBillText", "analyzeItem" }
        /\ request.pc = "analyzeItem" => request.k \in DOMAIN newItems
        /\ phase = "off")

\* a request has met a first action without a trigger phrase: no candidate, no
\* entry; an earlier request has briefed an action spelled in capitals
C32_Witness ==
  /\ request.n = 2
  /\ newItems = <<>>
  /\ \E i \in RowIdx :
        /\ ~HoldsTrigger(billData.historyRows[i].action)
        /\ RowId(i) \notin DOMAIN seenItems
  /\ \E b \in DOMAIN storage_briefs :
        storage_briefs[b].item.raw_text_sha256 = calculateHash(<<"ENACTED">>)

----------------------------------------------------------------------------
(* Properties of the full text *)

\* the text that stands for the bill: the full text, or the current status
\* of the snapshot when fetchBillText returned null
TextOrStatus(bd, billText) == IF billText = NoText THEN bd.currentStatus ELSE billText

\* C33: fetchBillText ends in a text or in null and the callback goes on to
\* the next stage with no error entry; the brief row that is then stored
\* holds the full text, or the current status of the bill when there is none.
C33_TextSurrogate ==
  [][\A c \in AllBillNumbers :
       /\ \A text \in BillTexts :
             FetchBillTextReturns(c, text) =>
               /\ task'[c].pc = "storeBill"
               /\ task'[c].billText = text
               /\ stats' = stats
       /\ StoreBriefInserts(c) =>
             \E b \in briefs' \ briefs :
                b.bill_text = TextOrStatus(task[c].billData, task[c].billText)]_vars

----------------------------------------------------------------------------
(* Properties of parseBillPage *)

WellFormed(r) == r.date # <<>> /\ r.action # <<>>

\* the rows of the page with a date and an action text, trimmed, in the order
\* of the page
WellFormedRows(page) ==
  SelectSeq([i \in DOMAIN page.rows |-> trimRow(page.rows[i])], WellFormed)

\* C34: a page with a bill number is parsed without an error by either
\* parseBillPage, and the historyRows of the snapshot are the rows of the page
\* that have a date and an action text, in the order of the page.
C34_WellFormedRowsOnly ==
  (fn.computed /\ fn.page.h1 # NoMatch) =>
     /\ fn.server # ParseError
     /\ fn.server.historyRows = WellFormedRows(fn.page)
     /\ fn.scraper # ScrapeError
     /\ fn.scraper.historyRows = WellFormedRows(fn.page)

----------------------------------------------------------------------------
(* Properties of the counters *)

\* C35: in every state of a run, billsChecked >= billsFound >=
\* passedKeywordFilter >= passedAIFilter >= briefsCreated, billsUpdated =
\* briefsCreated, and briefsCreated plus the number of error entries is at
\* most billsFound.
C35_CounterChain ==
  phase # "off" =>
     /\ stats.billsChecked >= stats.billsFound
     /\ stats.billsFound >= stats.passedKeywordFilter
     /\ stats.passedKeywordFilter >= stats.passedAIFilter
     /\ stats.passedAIFilter >= stats.briefsCreated
     /\ stats.billsUpdated = stats.briefsCreated
     /\ stats.briefsCreated + Len(stats.errors) <= stats.billsFound

\* two bills were in flight together; one has failed at its brief insert,
\* then the other got its brief
C35_Witness ==
  /\ phase = "updateRun"
  /\ stats.billsChecked = 2
  /\ stats.passedAIFilter = 2
  /\ stats.briefsCreated = 1
  /\ Len(stats.errors) = 1
  /\ stats.errors[1].error = "storeBrief"
  /\ \E b \in briefs : b.brief_id > 1

----------------------------------------------------------------------------
(* Properties of the results of POST /api/collect *)

\* the error records of an item, and those of a bill as a whole
ItemErrors(r) == { e \in DOMAIN r.results.errors : r.results.errors[e].item_id # NoId }
BillErrors(r) == { e \in DOMAIN r.results.errors : r.results.errors[e].item_id = NoId }

\* C36: after a failed analysis of an item the next item of the bill is
\* analysed, or, after the last item, the bill is counted in billsProcessed
\* and the next bill is fetched or the response is sent; and in a response
\* with the results object, itemsIdentified = briefsCreated + item error
\* records, the briefs list has briefsCreated entries, and billsProcessed +
\* bill error records = requested bill numbers.
C36_ItemIsolation ==
  /\ [][\A reply \in AnalysisFailures \cup { AnalysisNull } :
          CollectAnalysisReturns(reply) =>
            /\ Len(request'.results.errors) = Len(request.results.errors) + 1
            /\ request'.results.errors[Len(request'.results.errors)].item_id =
                  newItems[request.k].item_id
            /\ IF request.k < Len(newItems)
               THEN /\ request'.pc = "analyzeItem"
                    /\ request'.k = request.k + 1
                    /\ request'.results.billsProcessed = request.results.billsProcessed
               ELSE /\ request'.results.billsProcessed = request.results.billsProcessed + 1
                    /\ IF request.at < Len(request.billNumbers)
                       THEN request'.pc = "fetchBillPage" /\ request'.at = request.at + 1
                       ELSE request'.pc = "idle" /\ request'.status = 200]_vars
  /\ [](request.status = 200 =>
          /\ request.results.itemsIdentified =
                request.results.briefsCreated + Cardinality(ItemErrors(request))
          /\ Len(request.results.briefs) = request.results.briefsCreated
          /\ request.results.billsProcessed + Cardinality(BillErrors(request)) =
                Len(request.billNumbers))

\* the response to a request for two bills: one bill failed as a whole, the
\* first item of the other failed and its second item got a brief
C36_Witness ==
  /\ request.status = 200
  /\ Len(request.billNumbers) = 2
  /\ request.results.billsProcessed = 1
  /\ Cardinality(BillErrors(request)) = 1
  /\ request.results.itemsIdentified = 2
  /\ Cardinality(ItemErrors(request)) = 1
  /\ \E k \in DOMAIN request.results.briefs :
        storage_briefs[request.results.briefs[k]].item.raw_text_sha256 =
          calculateHash(<<"ENACTED">>)

----------------------------------------------------------------------------
(* Properties of a rejected bill *)

\* the stages that follow hasChanges
PastHasChanges(c) ==
  task[c].pc \in { "checkRelevanceWithAI", "fetchBillText", "storeBill", "analyzeBill",
                   "storeBrief", "done" }

\* in the second run, bill c is met with the snapshot of the first run
SameSnapshotAgain(c) ==
  /\ runNo = 2
  /\ task[c].billData # NoBill
  /\ task[c].billData = prevParsed[c]
  /\ matchesMunicipalKeywords(toLowerCase(textToCheck(task[c].billData)))

\* C37: the step in which the relevance engine rejects a bill writes no
\* table and adds no error entry; a bill rejected in the first run has no
\* bills row, no history row and no brief; and when the second run meets it
\* with the same snapshot, hasChanges reports it as new and the relevance
\* engine is called for it again.
C37_RejectLeavesNoTrace ==
  /\ [][\A c \in AllBillNumbers, reply \in RelevanceObjects :
          (RelevanceReturns(c, reply) /\ ~checkRelevanceWithAI(reply)) =>
             /\ UNCHANGED <<bills, bill_history, briefs, scraper_runs, uuidSeq>>
             /\ task'[c].outcome = "rejected"
             /\ task'[c].pc = "done"
             /\ stats' = stats]_vars
  /\ [](\A c \in AllBillNumbers :
          (runNo = 1 /\ task[c].outcome = "rejected") =>
             /\ c \notin DOMAIN bills /\ HistoryOf(c) = {} /\ BriefsOf(c) = {}
             /\ [](SameSnapshotAgain(c) =>
                     /\ task[c].pc \in { "hasChanges" } \/ PastHasChanges(c)
                     /\ PastHasChanges(c) =>
                           /\ task[c].calls >= 1
                           /\ task[c].outcome # "unchanged"
                           /\ Running(c) => task[c].change \in { "new", "newOnError" }))

\* the first run ended without an error and stored nothing of a bill that
\* passed the keyword filter: it was rejected; the second run has met the
\* same snapshot, found the bill new, and the relevance call is under way
C37_Witness ==
  \E c \in AllBillNumbers :
     /\ SameSnapshotAgain(c)
     /\ scraper_runs[1].completed
     /\ scraper_runs[1].errors = <<>>
     /\ c \notin DOMAIN bills
     /\ task[c].pc = "checkRelevanceWithAI"
     /\ task[c].change = "new"
     /\ task[c].calls = 1

----------------------------------------------------------------------------
(* Properties of hasChanges *)

\* the first run has stored bill c with a brief, and the second run has met
\* it with the same snapshot
BriefedAndUnchanged(c) ==
  /\ SameSnapshotAgain(c)
  /\ scraper_runs[1].briefs_created = 1

\* C38: a hasChanges whose query fails returns isNew for any bill and any
\* tables; the callback then calls the relevance engine, with no error entry
\* and no write; and an unchanged bill that has its brief goes past
\* hasChanges in the next run only in this way.
C38_ChangeCheckFailsOpen ==
  /\ [][\A c \in AllBillNumbers :
          (task[c].pc = "hasChanges" /\ task'[c].change = "newOnError") =>
             /\ hasChanges(task[c].billData, bills, bill_history, FALSE).isNew
             /\ task'[c].pc = "checkRelevanceWithAI"
             /\ task'[c].calls = task[c].calls + 1
             /\ stats' = stats
             /\ UNCHANGED <<bills, bill_history, briefs, scraper_runs, uuidSeq, phase>>]_vars
  /\ [][\A c \in AllBillNumbers :
          HasChangesReturns(c, FALSE) =>
             /\ task'[c].pc = "checkRelevanceWithAI"
             /\ stats'.errors = stats.errors]_vars
  /\ [](\A c \in AllBillNumbers :
          (BriefedAndUnchanged(c) /\ Running(c) /\ PastHasChanges(c)) =>
             task[c].change = "newOnError")

\* the second run has met an unchanged bill that had its brief, and has
\* stored a second brief for it without an error entry
C38_Witness ==
  \E c \in AllBillNumbers :
     /\ BriefedAndUnchanged(c)
     /\ task[c].outcome = "brief"
     /\ Cardinality(BriefsOf(c)) = 2
     /\ stats.errors = <<>>

====
